---- MODULE Spec2Model ----
(***************************************************************************)
(* A model of the barnarok chess engine: the bitboard Board of board.rs,   *)
(* the precomputed masks of masks.rs, the Hyperbola-Quintessence slider    *)
(* routine, the per-piece move generators of piece/*.rs, make_move and     *)
(* unmake_move, explore (perft) of chess.rs and the searches of ai.rs.     *)
(*                                                                         *)
(* A Bitboard (u64) is modelled as the set of its set bit positions, a     *)
(* subset of 0..63: & is \cap, | is \cup, ! is complement in 0..63, ^ is   *)
(* the symmetric difference, << and >> move every position and drop the   *)
(* positions that leave 0..63, and wrapping_sub is 64-bit subtraction on   *)
(* that representation.  Option::None is modelled as NONE.                 *)
(***************************************************************************)
EXTENDS Integers, Sequences, FiniteSets

\* ------------------------------------------------------------------------
\* Piece kinds (chess.rs) and Option::None
\* ------------------------------------------------------------------------
EMPTY == 0
PAWN == 1
ROOK == 2
KNIGHT == 3
BISHOP == 4
QUEEN == 5
KING == 6

NONE == -1

INF == 1000000

\* ------------------------------------------------------------------------
\* 64-bit bitboard arithmetic on sets of bit positions
\* ------------------------------------------------------------------------
Squares == 0..63

Bit(sq) == IF sq \in Squares THEN {sq} ELSE {}

Shl(bb, n) == {s + n : s \in {x \in bb : x + n <= 63}}

Shr(bb, n) == {s - n : s \in {x \in bb : x - n >= 0}}

Not(bb) == Squares \ bb

Xor(a, b) == (a \ b) \cup (b \ a)

ReverseBits(bb) == {63 - s : s \in bb}

\* Operator arguments are evaluated on demand; a loop written as a recursion
\* tests Strict(v) on the values it hands to the next iteration so that each
\* iteration works on values, not on the nest of the pending ones.
Strict(v) == v = v

MinOf(S) == CHOOSE x \in S : \A y \in S : x <= y

\* a - 2^k modulo 2^64: the borrow runs from bit k up to the lowest set bit
\* of a at or above k, which is cleared while the bits below it down to k
\* are set; with no such bit the borrow runs off the top (wrapping).
SubBit(a, k) ==
    LET hi == {i \in a : i >= k}
    IN  IF hi = {} THEN a \cup (k..63)
        ELSE LET j == MinOf(hi) IN (a \ {j}) \cup (k..(j - 1))

\* u64::wrapping_sub(a, b): subtract the bits of b one power of two at a time.
RECURSIVE WrappingSub(_, _)
WrappingSub(a, b) ==
    IF b = {} THEN a
    ELSE LET k == MinOf(b) IN WrappingSub(SubBit(a, k), b \ {k})

\* The squares of a bitboard in the order the `while bits != 0` loops visit
\* them (trailing_zeros, then bits &= bits - 1): ascending.
SqSeq == [i \in 1..64 |-> i - 1]

BitsOf(bb) == SelectSeq(SqSeq, LAMBDA s : s \in bb)

\* ------------------------------------------------------------------------
\* masks.rs: precomputed tables
\* ------------------------------------------------------------------------
FileOf(sq) == sq % 8
RankOf(sq) == sq \div 8

make_rank_masks(sq) == {RankOf(sq) * 8 + f : f \in 0..7}

make_file_masks(sq) == {FileOf(sq) + 8 * r : r \in 0..7}

make_antidiagonal_masks(sq) ==
    LET file == FileOf(sq)
        rank == RankOf(sq)
    IN  {(rank + k) * 8 + (file - k) : k \in {j \in 0..7 : file - j >= 0 /\ rank + j < 8}}
        \cup
        {(rank - k) * 8 + (file + k) : k \in {j \in 0..7 : file + j < 8 /\ rank - j >= 0}}

make_diagonal_masks(sq) ==
    LET file == FileOf(sq)
        rank == RankOf(sq)
    IN  {(rank + k) * 8 + (file + k) : k \in {j \in 0..7 : file + j < 8 /\ rank + j < 8}}
        \cup
        {(rank - k) * 8 + (file - k) : k \in {j \in 0..7 : file - j >= 0 /\ rank - j >= 0}}

make_knight_masks(sq) ==
    LET file == FileOf(sq)
        rank == RankOf(sq)
    IN  (IF file > 1 /\ rank > 1 THEN {sq - 10} ELSE {})
        \cup (IF file > 1 /\ rank < 7 THEN {sq + 6} ELSE {})
        \cup (IF file > 0 /\ rank > 2 THEN {sq - 17} ELSE {})
        \cup (IF file > 0 /\ rank < 6 THEN {sq + 15} ELSE {})
        \cup (IF file < 6 /\ rank < 7 THEN {sq + 10} ELSE {})
        \cup (IF file < 6 /\ rank > 1 THEN {sq - 6} ELSE {})
        \cup (IF file < 7 /\ rank < 6 THEN {sq + 17} ELSE {})
        \cup (IF file < 7 /\ rank > 2 THEN {sq - 15} ELSE {})

make_king_masks(sq) ==
    LET file == FileOf(sq)
        rank == RankOf(sq)
    IN  (IF file > 1 THEN {sq - 1} ELSE {})
        \cup (IF file > 1 /\ rank > 1 THEN {sq - 9} ELSE {})
        \cup (IF file > 1 /\ rank < 7 THEN {sq + 7} ELSE {})
        \cup (IF file < 7 THEN {sq + 1} ELSE {})
        \cup (IF file < 7 /\ rank > 1 THEN {sq - 7} ELSE {})
        \cup (IF file < 7 /\ rank < 7 THEN {sq + 9} ELSE {})
        \cup (IF rank > 1 THEN {sq - 8} ELSE {})
        \cup (IF rank < 7 THEN {sq + 8} ELSE {})

make_white_king_pawn_masks(sq) ==
    LET file == FileOf(sq)
        rank == RankOf(sq)
    IN  (IF rank < 7 /\ file > 0 THEN {sq + 7} ELSE {})
        \cup (IF rank < 7 /\ file < 7 THEN {sq + 9} ELSE {})

make_black_king_pawn_masks(sq) ==
    LET file == FileOf(sq)
        rank == RankOf(sq)
    IN  (IF rank > 0 /\ file > 0 THEN {sq - 9} ELSE {})
        \cup (IF rank > 0 /\ file < 7 THEN {sq - 7} ELSE {})

\* The const arrays, computed once.
RANK_MASKS == [sq \in Squares |-> make_rank_masks(sq)]
FILE_MASKS == [sq \in Squares |-> make_file_masks(sq)]
ANTIDIAGONAL_MASKS == [sq \in Squares |-> make_antidiagonal_masks(sq)]
DIAGONAL_MASKS == [sq \in Squares |-> make_diagonal_masks(sq)]
KNIGHT_MASKS == [sq \in Squares |-> make_knight_masks(sq)]
KING_MASKS == [sq \in Squares |-> make_king_masks(sq)]
WHITE_KING_PAWN_MASKS == [sq \in Squares |-> make_white_king_pawn_masks(sq)]
BLACK_KING_PAWN_MASKS == [sq \in Squares |-> make_black_king_pawn_masks(sq)]

rank_mask(sq) == RANK_MASKS[sq]
file_mask(sq) == FILE_MASKS[sq]
antidiagonal_mask(sq) == ANTIDIAGONAL_MASKS[sq]
diagonal_mask(sq) == DIAGONAL_MASKS[sq]
knight_mask(sq) == KNIGHT_MASKS[sq]
king_mask(sq) == KING_MASKS[sq]
white_king_pawn_mask(sq) == WHITE_KING_PAWN_MASKS[sq]
black_king_pawn_mask(sq) == BLACK_KING_PAWN_MASKS[sq]

\* ------------------------------------------------------------------------
\* piece/slider.rs, piece/rook.rs, piece/bishop.rs, piece/queen.rs
\* ------------------------------------------------------------------------
\* A slider_attacks_hq that joins the two directions with | instead of ^.
slider_attacks_or(sq, occ, mask) ==
    LET bit == Bit(sq)
        occ_masked == occ \cap mask
        forward == WrappingSub(occ_masked, Shl(bit, 1))
        rev_masked == ReverseBits(occ_masked)
        rev_bit == ReverseBits(bit)
        reverse == ReverseBits(WrappingSub(rev_masked, Shl(rev_bit, 1)))
    IN  (forward \cup reverse) \cap mask

slider_attacks_hq(sq, occ, mask) ==
    LET bit == Bit(sq)
        occ_masked == occ \cap mask
        forward == WrappingSub(occ_masked, Shl(bit, 1))
        rev_masked == ReverseBits(occ_masked)
        rev_bit == ReverseBits(bit)
        reverse == ReverseBits(WrappingSub(rev_masked, Shl(rev_bit, 1)))
    IN  Xor(forward, reverse) \cap mask

rook_attacks_hq(sq, occ) ==
    slider_attacks_hq(sq, occ, rank_mask(sq)) \cup slider_attacks_hq(sq, occ, file_mask(sq))

bishop_attacks_hq(sq, occ) ==
    slider_attacks_hq(sq, occ, antidiagonal_mask(sq))
        \cup slider_attacks_hq(sq, occ, diagonal_mask(sq))

queen_attacks_hq(sq, occ) == rook_attacks_hq(sq, occ) \cup bishop_attacks_hq(sq, occ)

\* ------------------------------------------------------------------------
\* board.rs: Board, Move, get_piece_type_on_square
\* ------------------------------------------------------------------------
\* MoveContext: None, EnPassant, QueenSideCastle, KingSideCastle, DoubleStep and
\* Promotion(kind); the promoted kind is the field `promoted` (EMPTY otherwise).
Move(start, end, context, promoted, capture, board) ==
    [start |-> start, end |-> end, context |-> context, promoted |-> promoted,
     capture |-> capture,
     previous_ep_target |-> board.en_passant_target,
     previous_wqs |-> board.white_queen_side_castling_right,
     previous_wks |-> board.white_king_side_castling_right,
     previous_bqs |-> board.black_queen_side_castling_right,
     previous_bks |-> board.black_king_side_castling_right]

get_piece_type_on_square(board, sq) ==
    IF sq \in board.white_pieces
    THEN IF sq \in board.white_pawns THEN PAWN
         ELSE IF sq \in board.white_rooks THEN ROOK
         ELSE IF sq \in board.white_knights THEN KNIGHT
         ELSE IF sq \in board.white_bishops THEN BISHOP
         ELSE IF sq \in board.white_queens THEN QUEEN
         ELSE KING
    ELSE IF sq \in board.black_pieces
    THEN IF sq \in board.black_pawns THEN PAWN
         ELSE IF sq \in board.black_rooks THEN ROOK
         ELSE IF sq \in board.black_knights THEN KNIGHT
         ELSE IF sq \in board.black_bishops THEN BISHOP
         ELSE IF sq \in board.black_queens THEN QUEEN
         ELSE KING
    ELSE EMPTY

\* A make_move that panics only when mv.start is an empty square.
make_move_panics_on_empty(b, mv) == mv.start \notin b.pieces

\* make_move panics when no piece of the side to move stands on mv.start.
make_move_panics(b, mv) ==
    IF b.white_to_play
    THEN mv.start \notin (b.white_pawns \cup b.white_rooks \cup b.white_knights
                            \cup b.white_bishops \cup b.white_queens)
         /\ b.white_king # mv.start
    ELSE mv.start \notin (b.black_pawns \cup b.black_rooks \cup b.black_knights
                            \cup b.black_bishops \cup b.black_queens)
         /\ b.black_king # mv.start

\* The steps of the white branch of make_move (board.rs 63-188), in the order
\* of the statements; p, k, c, b0 and b1 are the board after the statements
\* before.
\* white_promotion setting the promoted piece's bit and keeping the pawn's.
white_promotion_keeps_pawn(p, mv, to_mask) ==
    IF mv.context = "Promotion"
    THEN IF mv.promoted = BISHOP THEN [p EXCEPT !.white_bishops = @ \cup to_mask]
         ELSE IF mv.promoted = ROOK THEN [p EXCEPT !.white_rooks = @ \cup to_mask]
         ELSE IF mv.promoted = KNIGHT THEN [p EXCEPT !.white_knights = @ \cup to_mask]
         ELSE IF mv.promoted = QUEEN THEN [p EXCEPT !.white_queens = @ \cup to_mask]
         ELSE p
    ELSE p

\* A promoting pawn becomes the promoted piece (board.rs 72-98).
white_promotion(p, mv, to_mask) ==
    IF mv.context = "Promotion"
    THEN IF mv.promoted = BISHOP
         THEN [p EXCEPT !.white_bishops = @ \cup to_mask, !.white_pawns = @ \ to_mask]
         ELSE IF mv.promoted = ROOK
         THEN [p EXCEPT !.white_rooks = @ \cup to_mask, !.white_pawns = @ \ to_mask]
         ELSE IF mv.promoted = KNIGHT
         THEN [p EXCEPT !.white_knights = @ \cup to_mask, !.white_pawns = @ \ to_mask]
         ELSE IF mv.promoted = QUEEN
         THEN [p EXCEPT !.white_queens = @ \cup to_mask, !.white_pawns = @ \ to_mask]
         ELSE p
    ELSE p

\* The rook of a castle (board.rs 135-153).
white_castle_rook(k, mv) ==
    IF mv.context = "QueenSideCastle"
    THEN [k EXCEPT !.white_rooks = (@ \ {0}) \cup {3}, !.white_pieces = (@ \ {0}) \cup {3}]
    ELSE IF mv.context = "KingSideCastle"
    THEN [k EXCEPT !.white_rooks = (@ \ {7}) \cup {5}, !.white_pieces = (@ \ {7}) \cup {5}]
    ELSE k

\* The if/else chain on the moving piece's type (board.rs 69-159).
white_piece(b0, mv, from, to, from_mask, to_mask) ==
    IF from \in b0.white_pawns
    THEN white_promotion([b0 EXCEPT !.white_pawns = (@ \ from_mask) \cup to_mask],
                         mv, to_mask)
    ELSE IF from \in b0.white_rooks
    THEN [b0 EXCEPT
            !.white_queen_side_castling_right = IF from = 0 THEN FALSE ELSE @,
            !.white_king_side_castling_right = IF from # 0 /\ from = 7 THEN FALSE ELSE @,
            !.white_rooks = (@ \ from_mask) \cup to_mask]
    ELSE IF from \in b0.white_knights
    THEN [b0 EXCEPT !.white_knights = (@ \ from_mask) \cup to_mask]
    ELSE IF from \in b0.white_bishops
    THEN [b0 EXCEPT !.white_bishops = (@ \ from_mask) \cup to_mask]
    ELSE IF from \in b0.white_queens
    THEN [b0 EXCEPT !.white_queens = (@ \ from_mask) \cup to_mask]
    ELSE IF b0.white_king = from
    THEN white_castle_rook([b0 EXCEPT
                              !.white_king_side_castling_right = FALSE,
                              !.white_queen_side_castling_right = FALSE,
                              !.white_pieces = (@ \ Bit(b0.white_king)) \cup Bit(to),
                              !.white_king = to],
                           mv)
    ELSE b0  \* panic!: see make_move_panics

\* The match on the captured piece's type (board.rs 165-175).
white_captures(c, mv, to_mask) ==
    IF mv.capture = PAWN THEN [c EXCEPT !.black_pawns = @ \ to_mask]
    ELSE IF mv.capture = ROOK THEN [c EXCEPT !.black_rooks = @ \ to_mask]
    ELSE IF mv.capture = KNIGHT THEN [c EXCEPT !.black_knights = @ \ to_mask]
    ELSE IF mv.capture = BISHOP THEN [c EXCEPT !.black_bishops = @ \ to_mask]
    ELSE IF mv.capture = QUEEN THEN [c EXCEPT !.black_queens = @ \ to_mask]
    ELSE c

\* Capture, else en-passant capture (board.rs 162-182).
white_capture(b1, mv, to, to_mask) ==
    IF mv.capture # NONE
    THEN white_captures([b1 EXCEPT !.black_pieces = @ \ to_mask], mv, to_mask)
    ELSE IF mv.context = "EnPassant"
    THEN [b1 EXCEPT !.black_pieces = @ \ Bit(to - 8), !.black_pawns = @ \ Bit(to - 8)]
    ELSE b1

\* The white branch of make_move (board.rs 63-188).
make_move_white(b, mv) ==
    [white_capture(
         white_piece([b EXCEPT !.white_pieces = (@ \ Bit(mv.start)) \cup Bit(mv.end)],
                     mv, mv.start, mv.end, Bit(mv.start), Bit(mv.end)),
         mv, mv.end, Bit(mv.end))
     EXCEPT !.en_passant_target = IF mv.context = "DoubleStep" THEN mv.end - 8 ELSE NONE]

\* The steps of the black branch of make_move (board.rs 189-313).
black_promotion(p, mv, to_mask) ==
    IF mv.context = "Promotion"
    THEN IF mv.promoted = BISHOP
         THEN [p EXCEPT !.black_bishops = @ \cup to_mask, !.black_pawns = @ \ to_mask]
         ELSE IF mv.promoted = ROOK
         THEN [p EXCEPT !.black_rooks = @ \cup to_mask, !.black_pawns = @ \ to_mask]
         ELSE IF mv.promoted = KNIGHT
         THEN [p EXCEPT !.black_knights = @ \cup to_mask, !.black_pawns = @ \ to_mask]
         ELSE IF mv.promoted = QUEEN
         THEN [p EXCEPT !.black_queens = @ \cup to_mask, !.black_pawns = @ \ to_mask]
         ELSE p
    ELSE p

\* black_castle_rook moving the rook in the rook mask only, the aggregate
\* mask of the side keeping the corner.
black_castle_rook_mask_only(k, mv) ==
    IF mv.context = "QueenSideCastle"
    THEN [k EXCEPT !.black_rooks = (@ \ {56}) \cup {59}]
    ELSE IF mv.context = "KingSideCastle"
    THEN [k EXCEPT !.black_rooks = (@ \ {63}) \cup {61}]
    ELSE k

\* The rook of a castle (board.rs 261-280).
black_castle_rook(k, mv) ==
    IF mv.context = "QueenSideCastle"
    THEN [k EXCEPT !.black_rooks = (@ \ {56}) \cup {59}, !.black_pieces = (@ \ {56}) \cup {59}]
    ELSE IF mv.context = "KingSideCastle"
    THEN [k EXCEPT !.black_rooks = (@ \ {63}) \cup {61}, !.black_pieces = (@ \ {63}) \cup {61}]
    ELSE k

black_piece(b0, mv, from, to, from_mask, to_mask) ==
    IF from \in b0.black_pawns
    THEN black_promotion([b0 EXCEPT !.black_pawns = (@ \ from_mask) \cup to_mask],
                         mv, to_mask)
    ELSE IF from \in b0.black_rooks
    THEN [b0 EXCEPT
            !.black_queen_side_castling_right = IF from = 56 THEN FALSE ELSE @,
            !.black_king_side_castling_right = IF from # 56 /\ from = 63 THEN FALSE ELSE @,
            !.black_rooks = (@ \ from_mask) \cup to_mask]
    ELSE IF from \in b0.black_knights
    THEN [b0 EXCEPT !.black_knights = (@ \ from_mask) \cup to_mask]
    ELSE IF from \in b0.black_bishops
    THEN [b0 EXCEPT !.black_bishops = (@ \ from_mask) \cup to_mask]
    ELSE IF from \in b0.black_queens
    THEN [b0 EXCEPT !.black_queens = (@ \ from_mask) \cup to_mask]
    ELSE IF b0.black_king = from
    THEN black_castle_rook([b0 EXCEPT
                              !.black_king_side_castling_right = FALSE,
                              !.black_queen_side_castling_right = FALSE,
                              !.black_pieces = (@ \ Bit(b0.black_king)) \cup Bit(to),
                              !.black_king = to],
                           mv)
    ELSE b0  \* panic!: see make_move_panics

black_captures(c, mv, to_mask) ==
    IF mv.capture = PAWN THEN [c EXCEPT !.white_pawns = @ \ to_mask]
    ELSE IF mv.capture = ROOK THEN [c EXCEPT !.white_rooks = @ \ to_mask]
    ELSE IF mv.capture = KNIGHT THEN [c EXCEPT !.white_knights = @ \ to_mask]
    ELSE IF mv.capture = BISHOP THEN [c EXCEPT !.white_bishops = @ \ to_mask]
    ELSE IF mv.capture = QUEEN THEN [c EXCEPT !.white_queens = @ \ to_mask]
    ELSE c

\* Capture (board.rs 287-300).
black_capture(b1, mv, to_mask) ==
    IF mv.capture # NONE
    THEN black_captures([b1 EXCEPT !.white_pieces = @ \ to_mask], mv, to_mask)
    ELSE b1

\* En-passant capture, tested after and apart from the capture (board.rs 302-308).
black_en_passant(b2, mv, to) ==
    IF mv.context = "EnPassant"
    THEN [b2 EXCEPT !.white_pieces = @ \ Bit(to + 8), !.white_pawns = @ \ Bit(to + 8)]
    ELSE b2

\* The black branch of make_move (board.rs 189-313).
make_move_black(b, mv) ==
    [black_en_passant(
         black_capture(
             black_piece([b EXCEPT !.black_pieces = (@ \ Bit(mv.start)) \cup Bit(mv.end)],
                         mv, mv.start, mv.end, Bit(mv.start), Bit(mv.end)),
             mv, Bit(mv.end)),
         mv, mv.end)
     EXCEPT !.en_passant_target = IF mv.context = "DoubleStep" THEN mv.end + 8 ELSE NONE]

\* The branch of the side to move (board.rs 63, 189).
make_move_side(b, mv) ==
    IF b.white_to_play THEN make_move_white(b, mv) ELSE make_move_black(b, mv)

\* corner_rights leaving the four rights as they are.
corner_rights_kept(s, mv) == s

\* corner_rights clearing the right of a corner only when the piece that
\* landed there is of the corner's own side.
corner_rights_own_side(s, mv) ==
    IF mv.end = 0 /\ 0 \in s.white_pieces
    THEN [s EXCEPT !.white_queen_side_castling_right = FALSE]
    ELSE IF mv.end = 7 /\ 7 \in s.white_pieces
    THEN [s EXCEPT !.white_king_side_castling_right = FALSE]
    ELSE IF mv.end = 56 /\ 56 \in s.black_pieces
    THEN [s EXCEPT !.black_queen_side_castling_right = FALSE]
    ELSE IF mv.end = 63 /\ 63 \in s.black_pieces
    THEN [s EXCEPT !.black_king_side_castling_right = FALSE]
    ELSE s

\* A move that ends on a rook's home corner clears that right (board.rs 315-330).
corner_rights(s, mv) ==
    IF mv.end = 0 THEN [s EXCEPT !.white_queen_side_castling_right = FALSE]
    ELSE IF mv.end = 7 THEN [s EXCEPT !.white_king_side_castling_right = FALSE]
    ELSE IF mv.end = 56 THEN [s EXCEPT !.black_queen_side_castling_right = FALSE]
    ELSE IF mv.end = 63 THEN [s EXCEPT !.black_king_side_castling_right = FALSE]
    ELSE s

\* corner_rights setting the white king-side right instead of clearing it.
corner_rights_regrants(s, mv) ==
    IF mv.end = 0 THEN [s EXCEPT !.white_queen_side_castling_right = FALSE]
    ELSE IF mv.end = 7 THEN [s EXCEPT !.white_king_side_castling_right = TRUE]
    ELSE IF mv.end = 56 THEN [s EXCEPT !.black_queen_side_castling_right = FALSE]
    ELSE IF mv.end = 63 THEN [s EXCEPT !.black_king_side_castling_right = FALSE]
    ELSE s

\* The global occupancy and the side to move (board.rs 333-335).
occupancy_and_turn(r) ==
    [r EXCEPT !.pieces = r.white_pieces \cup r.black_pieces,
              !.white_to_play = ~r.white_to_play]

\* make_move setting the white king-side right instead of clearing it when a
\* move ends on h1.
make_move_regrants(b, mv) ==
    occupancy_and_turn(corner_rights_regrants(make_move_side(b, mv), mv))

\* make_move leaving en_passant_target as it was when the move is no double
\* step.
make_move_keeps_target(b, mv) ==
    [occupancy_and_turn(corner_rights(make_move_side(b, mv), mv))
     EXCEPT !.en_passant_target =
                IF mv.context = "DoubleStep" THEN @ ELSE b.en_passant_target]

\* make_move recording the double step's destination as en_passant_target
\* instead of the square passed over.
make_move_targets_end(b, mv) ==
    [occupancy_and_turn(corner_rights(make_move_side(b, mv), mv))
     EXCEPT !.en_passant_target = IF mv.context = "DoubleStep" THEN mv.end ELSE NONE]

\* Board::make_move (board.rs 56-336).
make_move(b, mv) ==
    occupancy_and_turn(corner_rights(make_move_side(b, mv), mv))

\* unmake_move panics when no piece of the side that moved stands on mv.end
\* (and the move is no promotion).
unmake_move_panics(b, mv) ==
    IF ~b.white_to_play
    THEN mv.context # "Promotion"
         /\ mv.end \notin (b.white_pawns \cup b.white_rooks \cup b.white_knights
                             \cup b.white_bishops \cup b.white_queens)
         /\ b.white_king # mv.end
    ELSE mv.context # "Promotion"
         /\ mv.end \notin (b.black_pawns \cup b.black_rooks \cup b.black_knights
                             \cup b.black_bishops \cup b.black_queens)
         /\ b.black_king # mv.end

\* The steps of the white branch of unmake_move (board.rs 353-466); b already
\* has the side to play flipped back.
\* A promoted piece is taken off the board (board.rs 356-369).
white_unpromotion(b, mv, to_mask) ==
    IF mv.promoted = BISHOP THEN [b EXCEPT !.white_bishops = @ \ to_mask]
    ELSE IF mv.promoted = ROOK THEN [b EXCEPT !.white_rooks = @ \ to_mask]
    ELSE IF mv.promoted = KNIGHT THEN [b EXCEPT !.white_knights = @ \ to_mask]
    ELSE IF mv.promoted = QUEEN THEN [b EXCEPT !.white_queens = @ \ to_mask]
    ELSE b

\* The rook of a castle goes back to its corner (board.rs 403-420).
white_uncastle_rook(k, mv) ==
    IF mv.context = "QueenSideCastle"
    THEN [k EXCEPT !.white_rooks = (@ \ {3}) \cup {0}, !.white_pieces = (@ \ {3}) \cup {0}]
    ELSE IF mv.context = "KingSideCastle"
    THEN [k EXCEPT !.white_rooks = (@ \ {5}) \cup {7}, !.white_pieces = (@ \ {5}) \cup {7}]
    ELSE k

\* The if/else chain that finds the moved piece on mv.end and lifts it
\* (board.rs 356-425): the pair of moved_piece_type and the board.
white_lifted(b, mv, from, to, to_mask) ==
    IF mv.context = "Promotion" THEN <<PAWN, white_unpromotion(b, mv, to_mask)>>
    ELSE IF to \in b.white_pawns THEN <<PAWN, [b EXCEPT !.white_pawns = @ \ to_mask]>>
    ELSE IF to \in b.white_rooks THEN <<ROOK, [b EXCEPT !.white_rooks = @ \ to_mask]>>
    ELSE IF to \in b.white_knights THEN <<KNIGHT, [b EXCEPT !.white_knights = @ \ to_mask]>>
    ELSE IF to \in b.white_bishops THEN <<BISHOP, [b EXCEPT !.white_bishops = @ \ to_mask]>>
    ELSE IF to \in b.white_queens THEN <<QUEEN, [b EXCEPT !.white_queens = @ \ to_mask]>>
    ELSE IF b.white_king = to
    THEN <<KING,
           white_uncastle_rook(
               [b EXCEPT !.white_pieces = (@ \ Bit(b.white_king)) \cup Bit(from),
                         !.white_king = from],
               mv)>>
    ELSE <<EMPTY, b>>  \* panic!: see unmake_move_panics

\* The match on the captured piece's type (board.rs 434-443).
white_uncaptures(c, mv, to, to_mask) ==
    IF mv.capture = PAWN THEN [c EXCEPT !.black_pawns = @ \cup to_mask]
    ELSE IF mv.capture = ROOK THEN [c EXCEPT !.black_rooks = @ \cup to_mask]
    ELSE IF mv.capture = KNIGHT THEN [c EXCEPT !.black_knights = @ \cup to_mask]
    ELSE IF mv.capture = BISHOP THEN [c EXCEPT !.black_bishops = @ \cup to_mask]
    ELSE IF mv.capture = QUEEN THEN [c EXCEPT !.black_queens = @ \cup to_mask]
    ELSE IF mv.capture = KING THEN [c EXCEPT !.black_king = to]
    ELSE c  \* unreachable!()

\* The captured piece comes back (board.rs 429-452).
white_uncapture(b1, mv, to, to_mask) ==
    IF mv.capture # NONE
    THEN white_uncaptures([b1 EXCEPT !.black_pieces = @ \cup to_mask], mv, to, to_mask)
    ELSE IF mv.context = "EnPassant"
    THEN [b1 EXCEPT !.black_pawns = @ \cup Bit(to - 8), !.black_pieces = @ \cup Bit(to - 8)]
    ELSE b1

\* The moved piece goes back to mv.start (board.rs 455-465).
white_put_back(b2, moved_piece_type, from, from_mask) ==
    IF moved_piece_type = PAWN THEN [b2 EXCEPT !.white_pawns = @ \cup from_mask]
    ELSE IF moved_piece_type = ROOK THEN [b2 EXCEPT !.white_rooks = @ \cup from_mask]
    ELSE IF moved_piece_type = KNIGHT THEN [b2 EXCEPT !.white_knights = @ \cup from_mask]
    ELSE IF moved_piece_type = BISHOP THEN [b2 EXCEPT !.white_bishops = @ \cup from_mask]
    ELSE IF moved_piece_type = QUEEN THEN [b2 EXCEPT !.white_queens = @ \cup from_mask]
    ELSE IF moved_piece_type = KING THEN [b2 EXCEPT !.white_king = from]
    ELSE b2  \* unreachable!()

\* The statements after the chain; r1 is the pair white_lifted returns.
white_restored(r1, mv) ==
    [white_put_back(
         white_uncapture([r1[2] EXCEPT !.white_pieces = @ \ Bit(mv.end)],
                         mv, mv.end, Bit(mv.end)),
         r1[1], mv.start, Bit(mv.start))
     EXCEPT !.white_pieces = @ \cup Bit(mv.start)]

\* The white branch of unmake_move (board.rs 353-466).
unmake_move_white(b, mv) ==
    white_restored(white_lifted(b, mv, mv.start, mv.end, Bit(mv.end)), mv)

\* The steps of the black branch of unmake_move (board.rs 467-580).
black_unpromotion(b, mv, to_mask) ==
    IF mv.promoted = BISHOP THEN [b EXCEPT !.black_bishops = @ \ to_mask]
    ELSE IF mv.promoted = ROOK THEN [b EXCEPT !.black_rooks = @ \ to_mask]
    ELSE IF mv.promoted = KNIGHT THEN [b EXCEPT !.black_knights = @ \ to_mask]
    ELSE IF mv.promoted = QUEEN THEN [b EXCEPT !.black_queens = @ \ to_mask]
    ELSE b

black_uncastle_rook(k, mv) ==
    IF mv.context = "QueenSideCastle"
    THEN [k EXCEPT !.black_rooks = (@ \ {59}) \cup {56}, !.black_pieces = (@ \ {59}) \cup {56}]
    ELSE IF mv.context = "KingSideCastle"
    THEN [k EXCEPT !.black_rooks = (@ \ {61}) \cup {63}, !.black_pieces = (@ \ {61}) \cup {63}]
    ELSE k

black_lifted(b, mv, from, to, to_mask) ==
    IF mv.context = "Promotion" THEN <<PAWN, black_unpromotion(b, mv, to_mask)>>
    ELSE IF to \in b.black_pawns THEN <<PAWN, [b EXCEPT !.black_pawns = @ \ to_mask]>>
    ELSE IF to \in b.black_rooks THEN <<ROOK, [b EXCEPT !.black_rooks = @ \ to_mask]>>
    ELSE IF to \in b.black_knights THEN <<KNIGHT, [b EXCEPT !.black_knights = @ \ to_mask]>>
    ELSE IF to \in b.black_bishops THEN <<BISHOP, [b EXCEPT !.black_bishops = @ \ to_mask]>>
    ELSE IF to \in b.black_queens THEN <<QUEEN, [b EXCEPT !.black_queens = @ \ to_mask]>>
    ELSE IF b.black_king = to
    THEN <<KING,
           black_uncastle_rook(
               [b EXCEPT !.black_pieces = (@ \ Bit(b.black_king)) \cup Bit(from),
                         !.black_king = from],
               mv)>>
    ELSE <<EMPTY, b>>  \* panic!: see unmake_move_panics

black_uncaptures(c, mv, to, to_mask) ==
    IF mv.capture = PAWN THEN [c EXCEPT !.white_pawns = @ \cup to_mask]
    ELSE IF mv.capture = ROOK THEN [c EXCEPT !.white_rooks = @ \cup to_mask]
    ELSE IF mv.capture = KNIGHT THEN [c EXCEPT !.white_knights = @ \cup to_mask]
    ELSE IF mv.capture = BISHOP THEN [c EXCEPT !.white_bishops = @ \cup to_mask]
    ELSE IF mv.capture = QUEEN THEN [c EXCEPT !.white_queens = @ \cup to_mask]
    ELSE IF mv.capture = KING THEN [c EXCEPT !.white_king = to]
    ELSE c  \* unreachable!()

black_uncapture(b1, mv, to, to_mask) ==
    IF mv.capture # NONE
    THEN black_uncaptures([b1 EXCEPT !.white_pieces = @ \cup to_mask], mv, to, to_mask)
    ELSE IF mv.context = "EnPassant"
    THEN [b1 EXCEPT !.white_pawns = @ \cup Bit(to + 8), !.white_pieces = @ \cup Bit(to + 8)]
    ELSE b1

black_put_back(b2, moved_piece_type, from, from_mask) ==
    IF moved_piece_type = PAWN THEN [b2 EXCEPT !.black_pawns = @ \cup from_mask]
    ELSE IF moved_piece_type = ROOK THEN [b2 EXCEPT !.black_rooks = @ \cup from_mask]
    ELSE IF moved_piece_type = KNIGHT THEN [b2 EXCEPT !.black_knights = @ \cup from_mask]
    ELSE IF moved_piece_type = BISHOP THEN [b2 EXCEPT !.black_bishops = @ \cup from_mask]
    ELSE IF moved_piece_type = QUEEN THEN [b2 EXCEPT !.black_queens = @ \cup from_mask]
    ELSE IF moved_piece_type = KING THEN [b2 EXCEPT !.black_king = from]
    ELSE b2  \* unreachable!()

black_restored(r1, mv) ==
    [black_put_back(
         black_uncapture([r1[2] EXCEPT !.black_pieces = @ \ Bit(mv.end)],
                         mv, mv.end, Bit(mv.end)),
         r1[1], mv.start, Bit(mv.start))
     EXCEPT !.black_pieces = @ \cup Bit(mv.start)]

\* The black branch of unmake_move (board.rs 467-580).
unmake_move_black(b, mv) ==
    black_restored(black_lifted(b, mv, mv.start, mv.end, Bit(mv.end)), mv)

\* The branch of the side that made the move; f has the side to play flipped
\* back (board.rs 350-353, 467).
unmake_move_side(f, mv) ==
    IF f.white_to_play THEN unmake_move_white(f, mv) ELSE unmake_move_black(f, mv)

\* The target, the occupancy and the four rights from the move's snapshot
\* (board.rs 582-591).
restore_snapshot(s, mv) ==
    [s EXCEPT !.en_passant_target = mv.previous_ep_target,
              !.pieces = s.white_pieces \cup s.black_pieces,
              !.white_queen_side_castling_right = mv.previous_wqs,
              !.white_king_side_castling_right = mv.previous_wks,
              !.black_queen_side_castling_right = mv.previous_bqs,
              !.black_king_side_castling_right = mv.previous_bks]

\* restore_snapshot taking the white king-side right from the queen-side
\* snapshot.
restore_snapshot_swapped(s, mv) ==
    [s EXCEPT !.en_passant_target = mv.previous_ep_target,
              !.pieces = s.white_pieces \cup s.black_pieces,
              !.white_queen_side_castling_right = mv.previous_wqs,
              !.white_king_side_castling_right = mv.previous_wqs,
              !.black_queen_side_castling_right = mv.previous_bqs,
              !.black_king_side_castling_right = mv.previous_bks]

\* unmake_move restoring the white king-side right from the queen-side
\* snapshot.
unmake_move_swaps_snapshot(b, mv) ==
    restore_snapshot_swapped(unmake_move_side([b EXCEPT !.white_to_play = ~@], mv), mv)

\* Board::unmake_move (board.rs 339-592).
unmake_move(b, mv) ==
    restore_snapshot(unmake_move_side([b EXCEPT !.white_to_play = ~@], mv), mv)

\* ------------------------------------------------------------------------
\* The king-safety probe (spec section 4.3).  The flag is
\* for_side_that_just_moved: with TRUE the square belongs to the side that
\* just moved and the attackers are the side to play; with FALSE the square
\* belongs to the side to play and the attackers are the other side.
\* ------------------------------------------------------------------------
\* The attackers of one colour, named by their bitboards.
attacked_by(sq, occ, pawn_sources, pawns, knights, king, rooks, bishops, queens) ==
    \/ pawn_sources \cap pawns # {}
    \/ knight_mask(sq) \cap knights # {}
    \/ king \in king_mask(sq)
    \/ rook_attacks_hq(sq, occ) \cap (rooks \cup queens) # {}
    \/ bishop_attacks_hq(sq, occ) \cap (bishops \cup queens) # {}

is_square_attacked(sq, board, just_moved) ==
    IF (IF just_moved THEN board.white_to_play ELSE ~board.white_to_play)
    THEN attacked_by(sq, board.pieces, black_king_pawn_mask(sq), board.white_pawns,
                     board.white_knights, board.white_king, board.white_rooks,
                     board.white_bishops, board.white_queens)
    ELSE attacked_by(sq, board.pieces, white_king_pawn_mask(sq), board.black_pawns,
                     board.black_knights, board.black_king, board.black_rooks,
                     board.black_bishops, board.black_queens)

is_king_attacked(board, just_moved) ==
    LET king_white == IF just_moved THEN ~board.white_to_play ELSE board.white_to_play
    IN  is_square_attacked(IF king_white THEN board.white_king ELSE board.black_king,
                           board, just_moved)

\* ------------------------------------------------------------------------
\* piece/knight.rs, rook.rs, bishop.rs, queen.rs, king.rs: move generators.
\* A generator takes &mut Board: it returns the board it leaves behind
\* together with the moves.
\* ------------------------------------------------------------------------
\* The inner loop shared by the knight, rook, bishop, queen and king
\* generators: build the move on the current board, make it, keep it when the
\* mover's king is not attacked, unmake it.  cands is the sequence of
\* <<from, to>> pairs in loop order; enemy is the local computed on entry.
\* The probe and the unmake_move of one iteration, on the board after make_move.
probe_and_unmake(made, mv, moves) ==
    [board |-> unmake_move(made, mv),
     moves |-> IF ~is_king_attacked(made, TRUE) THEN Append(moves, mv) ELSE moves]

\* One iteration of the loop for the move mv.
try_move(board, mv, moves) == probe_and_unmake(make_move(board, mv), mv, moves)

RECURSIVE try_moves(_, _, _, _)
\* The rest of the loop after an iteration that left r.
try_moves_rest(r, enemy, cands) ==
    CASE Strict(r) -> try_moves(r.board, enemy, Tail(cands), r.moves)

try_moves(board, enemy, cands, moves) ==
    IF cands = <<>> THEN [board |-> board, moves |-> moves]
    ELSE LET from == Head(cands)[1]
             to == Head(cands)[2]
         IN  try_moves_rest(
                 try_move(board,
                          Move(from, to, "None", EMPTY,
                               IF to \in enemy THEN get_piece_type_on_square(board, to)
                               ELSE NONE,
                               board),
                          moves),
                 enemy, cands)

\* <<from, to>> for every origin of froms (in order) and every target of
\* targets[from] (ascending): the order of the nested `while` loops.
RECURSIVE Candidates(_, _)
Candidates(froms, targets) ==
    IF froms = <<>> THEN <<>>
    ELSE LET from == Head(froms)
             tos == BitsOf(targets[from])
         IN  [i \in 1..Len(tos) |-> <<from, tos[i]>>] \o Candidates(Tail(froms), targets)

Enemy(board) == IF board.white_to_play THEN board.black_pieces ELSE board.white_pieces
Friendly(board) == IF board.white_to_play THEN board.white_pieces ELSE board.black_pieces

generate_knight_moves(board) ==
    LET enemy == Enemy(board)
        friendly == Friendly(board)
        knights == IF board.white_to_play THEN board.white_knights ELSE board.black_knights
        T == [from \in knights |-> knight_mask(from) \ friendly]
    IN  try_moves(board, enemy, Candidates(BitsOf(knights), T), <<>>)

generate_rook_moves_hq(board) ==
    LET occ == board.pieces
        enemy == Enemy(board)
        friendly == Friendly(board)
        rooks == IF board.white_to_play THEN board.white_rooks ELSE board.black_rooks
        T == [from \in rooks |-> rook_attacks_hq(from, occ) \ friendly]
    IN  try_moves(board, enemy, Candidates(BitsOf(rooks), T), <<>>)

generate_bishop_moves_hq(board) ==
    LET occ == board.pieces
        enemy == Enemy(board)
        friendly == Friendly(board)
        bishops == IF board.white_to_play THEN board.white_bishops ELSE board.black_bishops
        T == [from \in bishops |-> bishop_attacks_hq(from, occ) \ friendly]
    IN  try_moves(board, enemy, Candidates(BitsOf(bishops), T), <<>>)

generate_queen_moves_hq(board) ==
    LET occ == board.pieces
        enemy == Enemy(board)
        friendly == Friendly(board)
        queens == IF board.white_to_play THEN board.white_queens ELSE board.black_queens
        T == [from \in queens |-> queen_attacks_hq(from, occ) \ friendly]
    IN  try_moves(board, enemy, Candidates(BitsOf(queens), T), <<>>)

\* The masks of the squares that must be free for a castle (king.rs 89-92).
WHITE_QUEENSIDE_FREE_PATH_MASK == {1, 2, 3}
WHITE_KINGSIDE_FREE_PATH_MASK == {5, 6}
BLACK_QUEENSIDE_FREE_PATH_MASK == {57, 58, 59}
BLACK_KINGSIDE_FREE_PATH_MASK == {61, 62}

\* One castle test and its push: the right, the free path, the squares probed
\* with is_square_attacked and the move pushed when all hold.
castle_move(board, from, end, context, right, free_path, probed) ==
    IF /\ right
       /\ board.pieces \cap free_path = {}
       /\ \A sq \in probed : ~is_square_attacked(sq, board, FALSE)
    THEN <<Move(from, end, context, EMPTY, NONE, board)>>
    ELSE <<>>

\* The queen-side test, then the king-side test, of one colour.
castle_pair(board, from, q_right, q_free, q_probed, k_right, k_free, k_probed) ==
    castle_move(board, from, from - 2, "QueenSideCastle", q_right, q_free, q_probed)
        \o castle_move(board, from, from + 2, "KingSideCastle", k_right, k_free, k_probed)

\* The castle moves without the test of the square the king crosses.
castle_moves_untested_transit(board, from) ==
    IF board.white_to_play
    THEN castle_pair(board, from,
                     board.white_queen_side_castling_right,
                     WHITE_QUEENSIDE_FREE_PATH_MASK, {2, 4},
                     board.white_king_side_castling_right,
                     WHITE_KINGSIDE_FREE_PATH_MASK, {4, 6})
    ELSE castle_pair(board, from,
                     board.black_queen_side_castling_right,
                     BLACK_QUEENSIDE_FREE_PATH_MASK, {58, 60},
                     board.black_king_side_castling_right,
                     BLACK_KINGSIDE_FREE_PATH_MASK, {60, 62})

\* The castle moves of generate_king_moves (king.rs 88-184), on the board the
\* step loop left behind.
castle_moves(board, from) ==
    IF board.white_to_play
    THEN castle_pair(board, from,
                     board.white_queen_side_castling_right,
                     WHITE_QUEENSIDE_FREE_PATH_MASK, {2, 3, 4},
                     board.white_king_side_castling_right,
                     WHITE_KINGSIDE_FREE_PATH_MASK, {4, 5, 6})
    ELSE castle_pair(board, from,
                     board.black_queen_side_castling_right,
                     BLACK_QUEENSIDE_FREE_PATH_MASK, {58, 59, 60},
                     board.black_king_side_castling_right,
                     BLACK_KINGSIDE_FREE_PATH_MASK, {60, 61, 62})

\* The castle moves pushed after the moves of the step loop.
king_steps_then_castles(steps, from) ==
    [board |-> steps.board, moves |-> steps.moves \o castle_moves(steps.board, from)]

generate_king_moves(board) ==
    LET enemy == Enemy(board)
        friendly == Friendly(board)
        from == IF board.white_to_play THEN board.white_king ELSE board.black_king
        T == [f \in {from} |-> king_mask(f) \ friendly]
    IN  king_steps_then_castles(
            try_moves(board, enemy, Candidates(<<from>>, T), <<>>), from)

\* ------------------------------------------------------------------------
\* piece/pawn.rs: the pawn generator works on &Board and probes on a copy.
\* ------------------------------------------------------------------------
\* The Move literal of bitboard_to_moves carries start, end, context and
\* previous_ep_target only, with a capture as context Capture(kind); make_move
\* and unmake_move of board.rs read mv.capture and the four previous_* flags.
\* The capture kind is carried over as mv.capture and the flags are the
\* board's, the snapshot every other generator takes (spec section 3, Move).
pawn_move(board, from, to, shift, ep) ==
    LET enemy == Enemy(board)
        ctx == IF to \in enemy THEN get_piece_type_on_square(board, to) ELSE NONE
    IN  IF ep THEN Move(from, to, "EnPassant", EMPTY, NONE, board)
        ELSE IF shift = -16 \/ shift = 16 THEN Move(from, to, "DoubleStep", EMPTY, NONE, board)
        ELSE Move(from, to, "None", EMPTY, ctx, board)

\* The probe of one iteration (pawn.rs 220, 238-243): the move is made on a
\* copy and pushed when is_king_attacked(&temp, false) is false.
probe_on_copy(board, mv, out) ==
    IF ~is_king_attacked(make_move(board, mv), FALSE) THEN Append(out, mv) ELSE out

RECURSIVE bitboard_to_moves_loop(_, _, _, _, _)
bitboard_to_moves_loop(board, bits, shift, out, ep) ==
    IF bits = <<>> THEN out
    ELSE LET pushed == probe_on_copy(
                           board,
                           pawn_move(board, Head(bits) - shift, Head(bits), shift, ep),
                           out)
         IN  CASE Strict(pushed) ->
                  bitboard_to_moves_loop(board, Tail(bits), shift, pushed, ep)

bitboard_to_moves(board, to_bb, shift, out, ep) ==
    bitboard_to_moves_loop(board, BitsOf(to_bb), shift, out, ep)

FILE_A == {8 * r : r \in 0..7}
FILE_H == {8 * r + 7 : r \in 0..7}
RANK_2 == 8..15
RANK_7 == 48..55
RANK_5 == 32..39
RANK_4 == 24..31

\* The en-passant calls of bitboard_to_moves for white (pawn.rs 130-145) and
\* black (pawn.rs 172-187), as <<to_bb, shift, ep>> in call order.
en_passant_calls(board) ==
    IF board.white_to_play
    THEN IF board.en_passant_target # NONE /\ board.en_passant_target > 39
         THEN LET wp == board.white_pawns
                  ep_bb == Bit(board.en_passant_target)
                  ep_from_right == Shl(wp \cap RANK_5 \cap Not(FILE_A), 7) \cap ep_bb
                  ep_from_left == Shl(wp \cap RANK_5 \cap Not(FILE_H), 9) \cap ep_bb
              IN  << <<ep_from_right, 7, TRUE>>, <<ep_from_left, 9, TRUE>> >>
         ELSE <<>>
    ELSE IF board.en_passant_target # NONE /\ board.en_passant_target < 24
         THEN LET bp == board.black_pawns
                  ep_bb == Bit(board.en_passant_target)
                  ep_from_right == Shr(bp \cap RANK_4 \cap Not(FILE_A), 7) \cap ep_bb
                  ep_from_left == Shr(bp \cap RANK_4 \cap Not(FILE_H), 9) \cap ep_bb
              IN  << <<ep_from_right, -7, TRUE>>, <<ep_from_left, -9, TRUE>> >>
         ELSE <<>>

\* pawn_calls with the captures shifted from every pawn, edge files included.
pawn_calls_unmasked(board, empty) ==
    IF board.white_to_play
    THEN LET wp == board.white_pawns
             singles == Shl(wp, 8) \cap empty
             doubles == Shl(wp \cap RANK_2, 16) \cap empty \cap Shl(empty, 8)
             cap_nw == Shl(wp, 7) \cap board.black_pieces
             cap_ne == Shl(wp, 9) \cap board.black_pieces
         IN  << <<singles, 8, FALSE>>, <<doubles, 16, FALSE>>,
                <<cap_nw, 7, FALSE>>, <<cap_ne, 9, FALSE>> >> \o en_passant_calls(board)
    ELSE LET bp == board.black_pawns
             singles == Shr(bp, 8) \cap empty
             doubles == Shr(bp \cap RANK_7, 16) \cap empty \cap Shr(empty, 8)
             cap_sw == Shr(bp, 9) \cap board.white_pieces
             cap_se == Shr(bp, 7) \cap board.white_pieces
         IN  << <<singles, -8, FALSE>>, <<doubles, -16, FALSE>>,
                <<cap_sw, -9, FALSE>>, <<cap_se, -7, FALSE>> >> \o en_passant_calls(board)

\* The calls of bitboard_to_moves that generate_pawn_moves makes, as
\* <<to_bb, shift, ep>> in call order: singles, doubles, the two captures and
\* the en-passant calls (pawn.rs 106-188).
pawn_calls(board, empty) ==
    IF board.white_to_play
    THEN LET wp == board.white_pawns
             singles == Shl(wp, 8) \cap empty
             doubles == Shl(wp \cap RANK_2, 16) \cap empty \cap Shl(empty, 8)
             cap_nw == Shl(wp \cap Not(FILE_A), 7) \cap board.black_pieces
             cap_ne == Shl(wp \cap Not(FILE_H), 9) \cap board.black_pieces
         IN  << <<singles, 8, FALSE>>, <<doubles, 16, FALSE>>,
                <<cap_nw, 7, FALSE>>, <<cap_ne, 9, FALSE>> >> \o en_passant_calls(board)
    ELSE LET bp == board.black_pawns
             singles == Shr(bp, 8) \cap empty
             doubles == Shr(bp \cap RANK_7, 16) \cap empty \cap Shr(empty, 8)
             cap_sw == Shr(bp \cap Not(FILE_A), 9) \cap board.white_pieces
             cap_se == Shr(bp \cap Not(FILE_H), 7) \cap board.white_pieces
         IN  << <<singles, -8, FALSE>>, <<doubles, -16, FALSE>>,
                <<cap_sw, -9, FALSE>>, <<cap_se, -7, FALSE>> >> \o en_passant_calls(board)

\* The calls made one after the other, each pushing onto `moves`.
RECURSIVE run_pawn_calls(_, _, _)
run_pawn_calls(board, calls, moves) ==
    IF calls = <<>> THEN moves
    ELSE run_pawn_calls(board, Tail(calls),
                        bitboard_to_moves(board, Head(calls)[1], Head(calls)[2], moves,
                                          Head(calls)[3]))

generate_pawn_moves(board) ==
    run_pawn_calls(board, pawn_calls(board, Not(board.pieces)), <<>>)

\* ------------------------------------------------------------------------
\* get_legal_moves: pawns, rooks, bishops, queens (moves.rs 6-21), then
\* knights and king (spec section 4.2), the board threaded through the
\* generators that take &mut Board.
\* ------------------------------------------------------------------------
\* all_moves.append(&mut g): the moves of a generator's result g after `moves`.
append_moves(moves, g) == [board |-> g.board, moves |-> moves \o g.moves]

then_rook_moves(s) ==
    CASE Strict(s) -> append_moves(s.moves, generate_rook_moves_hq(s.board))
then_bishop_moves(s) ==
    CASE Strict(s) -> append_moves(s.moves, generate_bishop_moves_hq(s.board))
then_queen_moves(s) ==
    CASE Strict(s) -> append_moves(s.moves, generate_queen_moves_hq(s.board))
then_knight_moves(s) ==
    CASE Strict(s) -> append_moves(s.moves, generate_knight_moves(s.board))
then_king_moves(s) ==
    CASE Strict(s) -> append_moves(s.moves, generate_king_moves(s.board))

get_legal_moves(board) ==
    then_king_moves(then_knight_moves(then_queen_moves(then_bishop_moves(then_rook_moves(
        [board |-> board, moves |-> generate_pawn_moves(board)])))))

\* ------------------------------------------------------------------------
\* Board::from_fen (board.rs 607-799).  The input is the result of
\* split_whitespace: a sequence of fields, each a sequence of characters.
\* The result is Ok(board), Err(message) or a panic.
\* ------------------------------------------------------------------------
Ok(board) == [ok |-> TRUE, panic |-> FALSE, err |-> "", board |-> board]
Err(msg) == [ok |-> FALSE, panic |-> FALSE, err |-> msg, board |-> NONE]
Panic(msg) == [ok |-> FALSE, panic |-> TRUE, err |-> msg, board |-> NONE]

Digits == <<"0", "1", "2", "3", "4", "5", "6", "7", "8", "9">>
LowerCase == <<"a", "b", "c", "d", "e", "f", "g", "h", "i", "j", "k", "l", "m",
               "n", "o", "p", "q", "r", "s", "t", "u", "v", "w", "x", "y", "z">>
UpperCase == <<"A", "B", "C", "D", "E", "F", "G", "H", "I", "J", "K", "L", "M",
               "N", "O", "P", "Q", "R", "S", "T", "U", "V", "W", "X", "Y", "Z">>

IndexIn(seq, c) == CHOOSE i \in 1..Len(seq) : seq[i] = c
InSeq(seq, c) == \E i \in 1..Len(seq) : seq[i] = c

is_digit(c) == InSeq(Digits, c)
to_digit(c) == IndexIn(Digits, c) - 1

\* The byte of an ASCII character of the alphabet the model draws from.
ByteOf(c) ==
    IF InSeq(Digits, c) THEN 47 + IndexIn(Digits, c)
    ELSE IF InSeq(UpperCase, c) THEN 64 + IndexIn(UpperCase, c)
    ELSE IF InSeq(LowerCase, c) THEN 96 + IndexIn(LowerCase, c)
    ELSE IF c = "-" THEN 45
    ELSE IF c = "/" THEN 47
    ELSE 96  \* '`'

\* str::split(sep): the pieces between separators, empty pieces included.
RECURSIVE Split(_, _)
Split(s, sep) ==
    IF ~InSeq(s, sep) THEN <<s>>
    ELSE LET i == CHOOSE j \in 1..Len(s) : s[j] = sep /\ \A l \in 1..(j - 1) : s[l] # sep
         IN  <<SubSeq(s, 1, i - 1)>> \o Split(SubSeq(s, i + 1, Len(s)), sep)

\* One character of a rank (board.rs 654-703); st.err # "" once an Err was returned.
place_char(st, c, r_idx) ==
    IF st.err # "" THEN st
    ELSE IF is_digit(c) THEN [st EXCEPT !.file = @ + to_digit(c)]
    ELSE IF st.file >= 8 THEN [st EXCEPT !.err = "Rank has too many squares."]
    ELSE LET sq == (7 - r_idx) * 8 + st.file
             s1 == [st EXCEPT !.file = @ + 1]
         IN  IF c = "P" THEN [s1 EXCEPT !.wp = @ \cup {sq}]
             ELSE IF c = "p" THEN [s1 EXCEPT !.bp = @ \cup {sq}]
             ELSE IF c = "R" THEN [s1 EXCEPT !.wr = @ \cup {sq}]
             ELSE IF c = "r" THEN [s1 EXCEPT !.br = @ \cup {sq}]
             ELSE IF c = "N" THEN [s1 EXCEPT !.wn = @ \cup {sq}]
             ELSE IF c = "n" THEN [s1 EXCEPT !.bn = @ \cup {sq}]
             ELSE IF c = "B" THEN [s1 EXCEPT !.wb = @ \cup {sq}]
             ELSE IF c = "b" THEN [s1 EXCEPT !.bb = @ \cup {sq}]
             ELSE IF c = "Q" THEN [s1 EXCEPT !.wq = @ \cup {sq}]
             ELSE IF c = "q" THEN [s1 EXCEPT !.bq = @ \cup {sq}]
             ELSE IF c = "K" THEN [s1 EXCEPT !.wk_sq = sq]
             ELSE IF c = "k" THEN [s1 EXCEPT !.bk_sq = sq]
             ELSE [s1 EXCEPT !.err = "Invalid piece char."]

\* A rank loop without the test `if file != 8` after the rank.
RECURSIVE place_rank_uncounted(_, _, _)
place_rank_uncounted(st, chars, r_idx) ==
    IF chars = <<>> THEN st
    ELSE place_rank_uncounted(place_char(st, Head(chars), r_idx), Tail(chars), r_idx)

\* The characters of one rank, then the test of the rank's length
\* (board.rs 654-713).
RECURSIVE place_rank(_, _, _)
place_rank(st, chars, r_idx) ==
    IF chars = <<>>
    THEN IF st.err = "" /\ st.file # 8
         THEN [st EXCEPT !.err = "Rank has the wrong number of squares."]
         ELSE st
    ELSE place_rank(place_char(st, Head(chars), r_idx), Tail(chars), r_idx)

RECURSIVE place_ranks(_, _, _)
place_ranks(st, ranks, r_idx) ==
    IF r_idx >= Len(ranks) \/ st.err # "" THEN st
    ELSE place_ranks(place_rank([st EXCEPT !.file = 0], ranks[r_idx + 1], r_idx),
                     ranks, r_idx + 1)

RECURSIVE castling_rights(_, _)
castling_rights(st, chars) ==
    IF chars = <<>> \/ st.err # "" THEN st
    ELSE LET ch == Head(chars)
         IN  castling_rights(
                 IF ch = "K" THEN [st EXCEPT !.wks = TRUE]
                 ELSE IF ch = "Q" THEN [st EXCEPT !.wqs = TRUE]
                 ELSE IF ch = "k" THEN [st EXCEPT !.bks = TRUE]
                 ELSE IF ch = "q" THEN [st EXCEPT !.bqs = TRUE]
                 ELSE [st EXCEPT !.err = "Invalid castling char."],
                 Tail(chars))

\* A u8 after a subtraction that wrapped.
WrapU8(x) == x % 256

\* overflow_checks: the build traps integer overflow (`attempt to subtract
\* with overflow`, the debug profile) or wraps (the release profile); it
\* matters to the two u8 subtractions of the en-passant field only.
from_fen(parts, overflow_checks) ==
    IF Len(parts) # 4 THEN Err("FEN strings must have exactly 4 fields.")
    ELSE
    LET placement == parts[1]
        active_color == parts[2]
        castling == parts[3]
        en_passant == parts[4]
        ranks == Split(placement, "/")
        st0 == [wp |-> {}, wr |-> {}, wn |-> {}, wb |-> {}, wq |-> {}, wk_sq |-> NONE,
                bp |-> {}, br |-> {}, bn |-> {}, bb |-> {}, bq |-> {}, bk_sq |-> NONE,
                file |-> 0, err |-> ""]
        st == place_ranks(st0, ranks, 0)
        rights == IF castling # <<"-">>
                  THEN castling_rights([wks |-> FALSE, wqs |-> FALSE, bks |-> FALSE,
                                        bqs |-> FALSE, err |-> ""], castling)
                  ELSE [wks |-> FALSE, wqs |-> FALSE, bks |-> FALSE, bqs |-> FALSE, err |-> ""]
        white_pieces == st.wp \cup st.wr \cup st.wn \cup st.wb \cup st.wq \cup Bit(st.wk_sq)
        black_pieces == st.bp \cup st.br \cup st.bn \cup st.bb \cup st.bq \cup Bit(st.bk_sq)
    IN  IF Len(ranks) # 8 THEN Err("Expected 8 ranks in placement.")
        ELSE IF st.err # "" THEN Err(st.err)
        ELSE IF st.wk_sq = NONE THEN Err("Missing white king.")
        ELSE IF st.bk_sq = NONE THEN Err("Missing black king.")
        ELSE IF rights.err # "" THEN Err(rights.err)
        ELSE IF en_passant # <<"-">> /\ Len(en_passant) < 1
        THEN Panic("index out of bounds")
        ELSE IF en_passant # <<"-">> /\ overflow_checks
                /\ ByteOf(en_passant[1]) < ByteOf("a")
        THEN Panic("attempt to subtract with overflow")
        ELSE IF en_passant # <<"-">> /\ Len(en_passant) < 2
        THEN Panic("index out of bounds")
        ELSE IF en_passant # <<"-">> /\ overflow_checks
                /\ ByteOf(en_passant[2]) < ByteOf("1")
        THEN Panic("attempt to subtract with overflow")
        ELSE IF en_passant # <<"-">>
                /\ (WrapU8(ByteOf(en_passant[1]) - ByteOf("a")) > 7
                    \/ WrapU8(ByteOf(en_passant[2]) - ByteOf("1")) > 7)
        THEN Err("Invalid en passant square.")
        ELSE IF active_color # <<"w">> /\ active_color # <<"b">>
        THEN Err("Invalid active color.")
        ELSE Ok([white_pawns |-> st.wp, white_rooks |-> st.wr, white_knights |-> st.wn,
                 white_bishops |-> st.wb, white_queens |-> st.wq, white_king |-> st.wk_sq,
                 black_pawns |-> st.bp, black_rooks |-> st.br, black_knights |-> st.bn,
                 black_bishops |-> st.bb, black_queens |-> st.bq, black_king |-> st.bk_sq,
                 white_pieces |-> white_pieces,
                 black_pieces |-> black_pieces,
                 pieces |-> white_pieces \cup black_pieces,
                 en_passant_target |->
                     IF en_passant = <<"-">> THEN NONE
                     ELSE (ByteOf(en_passant[2]) - ByteOf("1")) * 8
                          + (ByteOf(en_passant[1]) - ByteOf("a")),
                 white_queen_side_castling_right |-> rights.wqs,
                 white_king_side_castling_right |-> rights.wks,
                 black_queen_side_castling_right |-> rights.bqs,
                 black_king_side_castling_right |-> rights.bks,
                 white_to_play |-> active_color = <<"w">>])

\* ------------------------------------------------------------------------
\* chess.rs: explore (perft)
\* ------------------------------------------------------------------------
RECURSIVE explore(_, _)
RECURSIVE explore_loop(_, _, _, _)
\* The next iteration, on the board after unmake_move and with n updated.
explore_next(restored, moves, max_depth, n) ==
    CASE Strict(restored) /\ Strict(n) -> explore_loop(restored, Tail(moves), max_depth, n)

\* n += the recursive call's count; board.unmake_move(*mv) (chess.rs 914-915).
explore_counted(sub, mv, moves, max_depth, n) ==
    explore_next(unmake_move(sub.board, mv), moves, max_depth, n + sub.n)

\* The `for mv in moves.iter()` loop of explore (chess.rs 911-916).
explore_loop(board, moves, max_depth, n) ==
    IF moves = <<>> THEN [board |-> board, n |-> n]
    ELSE explore_counted(explore(make_move(board, Head(moves)), max_depth - 1),
                         Head(moves), moves, max_depth, n)

\* explore after its call of get_legal_moves, which returned lm.
explore_moves(lm, max_depth) == explore_loop(lm.board, lm.moves, max_depth, 0)

explore(board, max_depth) ==
    IF max_depth = 0 THEN [board |-> board, n |-> 1]
    ELSE explore_moves(get_legal_moves(board), max_depth)

\* ------------------------------------------------------------------------
\* FEN inputs
\* ------------------------------------------------------------------------
\* "rnbqkbnr/pppppppp/8/8/8/8/PPPPPPPP/RNBQKBNR w KQkq -" (Board::new)
StartFen ==
    << <<"r","n","b","q","k","b","n","r","/","p","p","p","p","p","p","p","p","/",
         "8","/","8","/","8","/","8","/",
         "P","P","P","P","P","P","P","P","/","R","N","B","Q","K","B","N","R">>,
       <<"w">>, <<"K","Q","k","q">>, <<"-">> >>

new == from_fen(StartFen, TRUE)

\* ------------------------------------------------------------------------
\* ai.rs: negamax and alpha_beta.  A search takes &mut Board: it returns the
\* board it leaves behind together with the score and the best move.
\* ------------------------------------------------------------------------
\* Board::evaluate (spec section 4.5): the material count, seen from the side
\* to move (swapping sides negates the score).
evaluate(board) ==
    LET white == 100 * Cardinality(board.white_pawns) + 500 * Cardinality(board.white_rooks)
                     + 300 * Cardinality(board.white_knights)
                     + 300 * Cardinality(board.white_bishops)
                     + 900 * Cardinality(board.white_queens)
        black == 100 * Cardinality(board.black_pawns) + 500 * Cardinality(board.black_rooks)
                     + 300 * Cardinality(board.black_knights)
                     + 300 * Cardinality(board.black_bishops)
                     + 900 * Cardinality(board.black_queens)
    IN  IF board.white_to_play THEN white - black ELSE black - white

\* Option<Move>::None
NoBest == [start |-> NONE, end |-> NONE, context |-> "None", promoted |-> EMPTY,
           capture |-> NONE, previous_ep_target |-> NONE, previous_wqs |-> FALSE,
           previous_wks |-> FALSE, previous_bqs |-> FALSE, previous_bks |-> FALSE]

RECURSIVE negamax(_, _)
RECURSIVE negamax_loop(_, _, _, _, _)
\* The next iteration, on the board after unmake_move.
negamax_next(restored, mvs, depth, max, best) ==
    CASE Strict(restored) /\ Strict(max) /\ Strict(best) ->
         negamax_loop(restored, Tail(mvs), depth, max, best)

\* if score > max { max = score; best = Some(*mv); } (ai.rs 28-32).
negamax_scored(score, restored, mv, mvs, depth, max, best) ==
    negamax_next(restored, mvs, depth,
                 IF score > max THEN score ELSE max,
                 IF score > max THEN mv ELSE best)

\* negamax_searched keeping the sign of the score the recursive call returned.
negamax_searched_unnegated(sub, mv, mvs, depth, max, best) ==
    negamax_scored(sub.score, unmake_move(sub.board, mv), mv, mvs, depth, max, best)

\* score = -score; board.unmake_move(*mv) (ai.rs 26-27).
negamax_searched(sub, mv, mvs, depth, max, best) ==
    negamax_scored(-sub.score, unmake_move(sub.board, mv), mv, mvs, depth, max, best)

\* The `for mv in moves.iter()` loop of negamax (ai.rs 22-34).
negamax_loop(board, mvs, depth, max, best) ==
    IF mvs = <<>> THEN [board |-> board, score |-> max, best |-> best]
    ELSE negamax_searched(negamax(make_move(board, Head(mvs)), depth - 1),
                          Head(mvs), mvs, depth, max, best)

\* negamax after its call of get_legal_moves, which returned lm (ai.rs 17-34).
negamax_moves(lm, depth) ==
    IF lm.moves = <<>>
    THEN [board |-> lm.board, score |-> -INF, best |-> NoBest]
    ELSE negamax_loop(lm.board, lm.moves, depth, -INF, NoBest)

negamax(board, depth) ==
    IF depth = 0 THEN [board |-> board, score |-> evaluate(board), best |-> NoBest]
    ELSE negamax_moves(get_legal_moves(board), depth)

\* moves.shuffle(&mut rng): the permutations tried are the rotations of the
\* list by seed places, the same seed at every node of one search.
shuffle(mvs, seed) ==
    IF mvs = <<>> THEN mvs
    ELSE LET n == Len(mvs)
         IN  [i \in 1..n |-> mvs[((i - 1 + seed) % n) + 1]]

RECURSIVE alpha_beta(_, _, _, _, _)
RECURSIVE alpha_beta_loop(_, _, _, _, _, _, _, _)
\* alpha_beta_next leaving the loop as soon as a move reaches alpha instead of
\* beta, so that the moves after it are never searched.
alpha_beta_next_eager(score, restored, mvs, alpha, beta, depth, seed, max, best) ==
    CASE Strict(restored) /\ Strict(max) /\ Strict(alpha) /\ Strict(best) /\ Strict(beta) ->
         IF score >= alpha
         THEN [board |-> restored, score |-> max, best |-> best]
         ELSE alpha_beta_loop(restored, Tail(mvs), alpha, beta, depth, seed, max, best)

\* if score >= beta { return (max, best); }, else the next iteration
\* (ai.rs 133-136).
alpha_beta_next(score, restored, mvs, alpha, beta, depth, seed, max, best) ==
    CASE Strict(restored) /\ Strict(max) /\ Strict(alpha) /\ Strict(best) /\ Strict(beta) ->
         IF score >= beta
         THEN [board |-> restored, score |-> max, best |-> best]
         ELSE alpha_beta_loop(restored, Tail(mvs), alpha, beta, depth, seed, max, best)

\* if score > max { max = score; best = Some(*mv); if score > alpha { alpha =
\* score; } } (ai.rs 124-132).
alpha_beta_scored(score, restored, mv, mvs, alpha, beta, depth, seed, max, best) ==
    alpha_beta_next(score, restored, mvs,
                    IF score > max /\ score > alpha THEN score ELSE alpha,
                    beta, depth, seed,
                    IF score > max THEN score ELSE max,
                    IF score > max THEN mv ELSE best)

\* score = -score; board.unmake_move(*mv) (ai.rs 122-123).
alpha_beta_searched(sub, mv, mvs, alpha, beta, depth, seed, max, best) ==
    alpha_beta_scored(-sub.score, unmake_move(sub.board, mv), mv, mvs, alpha, beta,
                      depth, seed, max, best)

\* The `for mv in moves.iter()` loop of alpha_beta (ai.rs 117-137).
alpha_beta_loop(board, mvs, alpha, beta, depth, seed, max, best) ==
    IF mvs = <<>> THEN [board |-> board, score |-> max, best |-> best]
    ELSE alpha_beta_searched(
             alpha_beta(make_move(board, Head(mvs)), -beta, -alpha, depth - 1, seed),
             Head(mvs), mvs, alpha, beta, depth, seed, max, best)

\* alpha_beta_moves scoring every position without a move as lost, as
\* negamax does.
alpha_beta_moves_lost(board, mvs, alpha, beta, depth, seed) ==
    IF mvs = <<>>
    THEN [board |-> board, score |-> -INF, best |-> NoBest]
    ELSE alpha_beta_loop(board, mvs, alpha, beta, depth, seed, -INF, NoBest)

\* alpha_beta after get_legal_moves and shuffle; board is the one
\* get_legal_moves left behind (ai.rs 107-137).
alpha_beta_moves(board, mvs, alpha, beta, depth, seed) ==
    IF mvs = <<>>
    THEN [board |-> board,
          score |-> IF is_king_attacked(board, FALSE) THEN -INF ELSE 0,
          best |-> NoBest]
    ELSE alpha_beta_loop(board, mvs, alpha, beta, depth, seed, -INF, NoBest)

\* alpha_beta after its call of get_legal_moves, which returned lm.
alpha_beta_shuffled(lm, alpha, beta, depth, seed) ==
    alpha_beta_moves(lm.board, shuffle(lm.moves, seed), alpha, beta, depth, seed)

alpha_beta(board, alpha, beta, depth, seed) ==
    IF depth = 0 THEN [board |-> board, score |-> evaluate(board), best |-> NoBest]
    ELSE alpha_beta_shuffled(get_legal_moves(board), alpha, beta, depth, seed)

launch_alpha_beta(board, depth, seed) == alpha_beta(board, -INF, INF, depth, seed)

\* ------------------------------------------------------------------------
\* ai.rs: quiesce and alpha_beta_quiesce.  quiesce returns an i32; here it
\* returns the board it leaves behind, the score, and `made`, the moves it
\* and its recursive calls passed to make_move, in call order.
\* ------------------------------------------------------------------------
RECURSIVE quiesce(_, _, _)
RECURSIVE quiesce_loop(_, _, _, _, _, _)
\* if score >= beta { return score; } if score > best_value { best_value =
\* score; } if score > alpha { alpha = score; } (ai.rs 161-172).
quiesce_next(score, restored, mvs, alpha, beta, best_value, made) ==
    CASE Strict(restored) /\ Strict(best_value) /\ Strict(alpha) /\ Strict(made) ->
         IF score >= beta
         THEN [board |-> restored, score |-> score, made |-> made]
         ELSE quiesce_loop(restored, Tail(mvs),
                           IF score > alpha THEN score ELSE alpha, beta,
                           IF score > best_value THEN score ELSE best_value, made)

\* let score = -quiesce(..); board.unmake_move(*mv) (ai.rs 159-160).
quiesce_searched(sub, mv, mvs, alpha, beta, best_value, made) ==
    quiesce_next(-sub.score, unmake_move(sub.board, mv), mvs, alpha, beta, best_value,
                 (made \o <<mv>>) \o sub.made)

\* The `for mv in board.get_legal_moves().iter()` loop of quiesce with its
\* filter `if mv.capture != None { continue; }` (ai.rs 152-174).
quiesce_loop(board, mvs, alpha, beta, best_value, made) ==
    IF mvs = <<>> THEN [board |-> board, score |-> best_value, made |-> made]
    ELSE IF Head(mvs).capture # NONE
         THEN quiesce_loop(board, Tail(mvs), alpha, beta, best_value, made)
         ELSE quiesce_searched(quiesce(make_move(board, Head(mvs)), -beta, -alpha),
                               Head(mvs), mvs, alpha, beta, best_value, made)

\* quiesce after its call of get_legal_moves, which returned lm.
quiesce_moves(lm, alpha, beta, best_value) ==
    quiesce_loop(lm.board, lm.moves, alpha, beta, best_value, <<>>)

\* The stand-pat test and the raise of alpha (ai.rs 143-150).
quiesce_stand_pat(board, best_value, alpha, beta) ==
    IF best_value >= beta
    THEN [board |-> board, score |-> best_value, made |-> <<>>]
    ELSE quiesce_moves(get_legal_moves(board),
                       IF best_value > alpha THEN best_value ELSE alpha, beta, best_value)

quiesce(board, alpha, beta) == quiesce_stand_pat(board, evaluate(board), alpha, beta)

RECURSIVE alpha_beta_quiesce_loop(_, _, _, _, _, _, _, _)
\* if score >= beta { return (max, best); }, else the next iteration
\* (ai.rs 83-87).
alpha_beta_quiesce_next(score, restored, mvs, alpha, beta, depth, seed, max, best) ==
    CASE Strict(restored) /\ Strict(max) /\ Strict(alpha) /\ Strict(best) /\ Strict(beta) ->
         IF score >= beta
         THEN [board |-> restored, score |-> max, best |-> best]
         ELSE alpha_beta_quiesce_loop(restored, Tail(mvs), alpha, beta, depth, seed, max, best)

\* if score > max { max = score; best = Some(*mv); if score > alpha { alpha =
\* score; } } (ai.rs 74-82).
alpha_beta_quiesce_scored(score, restored, mv, mvs, alpha, beta, depth, seed, max, best) ==
    alpha_beta_quiesce_next(score, restored, mvs,
                            IF score > max /\ score > alpha THEN score ELSE alpha,
                            beta, depth, seed,
                            IF score > max THEN score ELSE max,
                            IF score > max THEN mv ELSE best)

\* score = -score; board.unmake_move(*mv) (ai.rs 72-73).
alpha_beta_quiesce_searched(sub, mv, mvs, alpha, beta, depth, seed, max, best) ==
    alpha_beta_quiesce_scored(-sub.score, unmake_move(sub.board, mv), mv, mvs, alpha, beta,
                              depth, seed, max, best)

\* The `for mv in moves.iter()` loop of alpha_beta_quiesce; its recursive
\* call is alpha_beta(board, -beta, -alpha, depth - 1) (ai.rs 68-88).
alpha_beta_quiesce_loop(board, mvs, alpha, beta, depth, seed, max, best) ==
    IF mvs = <<>> THEN [board |-> board, score |-> max, best |-> best]
    ELSE alpha_beta_quiesce_searched(
             alpha_beta(make_move(board, Head(mvs)), -beta, -alpha, depth - 1, seed),
             Head(mvs), mvs, alpha, beta, depth, seed, max, best)

\* alpha_beta_quiesce after get_legal_moves and shuffle (ai.rs 58-88).
alpha_beta_quiesce_moves(board, mvs, alpha, beta, depth, seed) ==
    IF mvs = <<>>
    THEN [board |-> board,
          score |-> IF is_king_attacked(board, FALSE) THEN -INF ELSE 0,
          best |-> NoBest]
    ELSE alpha_beta_quiesce_loop(board, mvs, alpha, beta, depth, seed, -INF, NoBest)

\* alpha_beta_quiesce after its call of get_legal_moves, which returned lm.
alpha_beta_quiesce_shuffled(lm, alpha, beta, depth, seed) ==
    alpha_beta_quiesce_moves(lm.board, shuffle(lm.moves, seed), alpha, beta, depth, seed)

\* return (quiesce(board, alpha, beta), None) (ai.rs 51).
alpha_beta_quiesce_leaf(q) == [board |-> q.board, score |-> q.score, best |-> NoBest]

alpha_beta_quiesce(board, alpha, beta, depth, seed) ==
    IF depth = 0 THEN alpha_beta_quiesce_leaf(quiesce(board, alpha, beta))
    ELSE alpha_beta_quiesce_shuffled(get_legal_moves(board), alpha, beta, depth, seed)

launch_alpha_beta_quiesce(board, depth, seed) ==
    alpha_beta_quiesce(board, -INF, INF, depth, seed)

\* ------------------------------------------------------------------------
\* Starting positions of the play model: small positions a game can reach,
\* each given to from_fen as its four fields.
\* ------------------------------------------------------------------------
\* "8/8/8/8/8/3k4/8/1N4K1 b - -": a king next to the squares a knight on the
\* first rank attacks.
FenKnight ==
    << <<"8","/","8","/","8","/","8","/","8","/","3","k","4","/","8","/",
         "1","N","4","K","1">>,
       <<"b">>, <<"-">>, <<"-">> >>

\* "4k3/3p4/8/4P3/8/8/8/4K3 b - -": a double step next to a pawn on its fifth rank.
FenEnPassant ==
    << <<"4","k","3","/","3","p","4","/","8","/","4","P","3","/","8","/","8","/","8","/",
         "4","K","3">>,
       <<"b">>, <<"-">>, <<"-">> >>

\* "4k3/8/8/8/8/8/7P/4K1NR w K -": king-side castling behind a knight.
FenCastleBlocked ==
    << <<"4","k","3","/","8","/","8","/","8","/","8","/","8","/","7","P","/",
         "4","K","1","N","R">>,
       <<"w">>, <<"K">>, <<"-">> >>

\* "5rk1/8/8/8/8/8/7P/4K2R w K -": king-side castling through an attacked square.
FenCastleAttacked ==
    << <<"5","r","k","1","/","8","/","8","/","8","/","8","/","8","/","7","P","/",
         "4","K","2","R">>,
       <<"w">>, <<"K">>, <<"-">> >>

\* "r3k3/p7/8/8/8/8/8/4K3 b q -": black queen-side castling.
FenCastleBlack ==
    << <<"r","3","k","3","/","p","7","/","8","/","8","/","8","/","8","/","8","/",
         "4","K","3">>,
       <<"b">>, <<"q">>, <<"-">> >>

\* "4r1k1/8/8/8/8/8/7P/4K3 w - -": the side to move is in check and has a pawn.
FenCheck ==
    << <<"4","r","1","k","1","/","8","/","8","/","8","/","8","/","8","/","7","P","/",
         "4","K","3">>,
       <<"w">>, <<"-">>, <<"-">> >>

\* "4k3/8/8/8/8/8/P6P/R3K2R w KQ -": both white castling rights.
FenCastleBoth ==
    << <<"4","k","3","/","8","/","8","/","8","/","8","/","8","/","P","6","P","/",
         "R","3","K","2","R">>,
       <<"w">>, <<"K","Q">>, <<"-">> >>

StartFens == {FenKnight, FenEnPassant, FenCastleBlocked, FenCastleAttacked,
              FenCastleBlack, FenCastleBoth, FenCheck}

\* Starting positions of the search model.
\* "7k/5K2/8/6P1/8/8/8/8 w - -": the pawn push leaves black without a move.
FenPush ==
    << <<"7","k","/","5","K","2","/","8","/","6","P","1","/","8","/","8","/","8","/","8">>,
       <<"w">>, <<"-">>, <<"-">> >>

\* "k7/8/1Q6/8/8/8/8/7K b - -": the side to move has no move and is not in check.
FenNoMove ==
    << <<"k","7","/","8","/","1","Q","6","/","8","/","8","/","8","/","8","/","7","K">>,
       <<"b">>, <<"-">>, <<"-">> >>

SearchFens == {FenPush, FenNoMove}

\* ------------------------------------------------------------------------
\* The play model: a board built by from_fen, then what play and explore do
\* with it: get_legal_moves, make_move of one of the returned moves,
\* unmake_move of the last move made and not yet unmade.
\* ------------------------------------------------------------------------
MaxPly == 3

VARIABLES
    board,   \* the Board
    moves,   \* the Vec<Move> get_legal_moves returned for this position
    stack,   \* the moves made and not yet unmade, each with the board it was
             \* made on and the caller's `moves`
    last,    \* the last operation: its kind, its move and the boards around it
    frames,  \* the activations of explore (chess.rs), innermost last
    perft,   \* the call of explore under way and its return value
    search,  \* the result of the last search (ai.rs)
    call     \* the last call of a function on inputs of its own, with what it returned

vars == <<board, moves, stack, last, frames, perft, search, call>>

NoMove == [start |-> NONE, end |-> NONE, context |-> "None", promoted |-> EMPTY,
           capture |-> NONE, previous_ep_target |-> NONE, previous_wqs |-> FALSE,
           previous_wks |-> FALSE, previous_bqs |-> FALSE, previous_bks |-> FALSE]

NoPerft == [max_depth |-> 0, n |-> 0, done |-> FALSE]

NoSearch == [done |-> FALSE, depth |-> 0, negamax |-> 0, alpha_beta |-> 0, stuck |-> FALSE]

NoCall == [op |-> "none"]

InitOn(fens) ==
    \E fen \in fens, overflow_checks \in BOOLEAN :
        \E r \in {from_fen(fen, overflow_checks)} :
            /\ r.ok
            /\ board = r.board
            /\ moves = <<>>
            /\ stack = <<>>
            /\ last = [op |-> "from_fen", mv |-> NoMove, before |-> r.board, orig |-> r.board]
            /\ frames = <<>>
            /\ perft = NoPerft
            /\ search = NoSearch
            /\ call = NoCall

Init == InitOn(StartFens)

\* moves = board.get_legal_moves(), within MaxPly plies of the start.
GetLegalMoves ==
    /\ last.op \in {"from_fen", "make_move", "search"}
    /\ Len(stack) < MaxPly
    /\ \E lm \in {get_legal_moves(board)} :
           /\ board' = lm.board
           /\ moves' = lm.moves
           /\ last' = [op |-> "get_legal_moves", mv |-> NoMove, before |-> board,
                       orig |-> board]
    /\ search' = NoSearch
    /\ UNCHANGED <<stack, frames, perft, call>>

\* board.make_move(mv) for one of the moves of `moves`.
MakeMove ==
    /\ last.op \in {"get_legal_moves", "unmake_move"}
    /\ \E i \in 1..Len(moves) :
           /\ ~make_move_panics(board, moves[i])
           /\ board' = make_move(board, moves[i])
           /\ stack' = Append(stack, [mv |-> moves[i], orig |-> board, moves |-> moves])
           /\ last' = [op |-> "make_move", mv |-> moves[i], before |-> board,
                       orig |-> board]
    /\ moves' = <<>>
    /\ search' = NoSearch
    /\ UNCHANGED <<frames, perft, call>>

\* board.unmake_move(mv) for the last move made; the caller goes on with its
\* own `moves`.
UnmakeMove ==
    /\ stack # <<>>
    /\ \E top \in {stack[Len(stack)]} :
           /\ ~unmake_move_panics(board, top.mv)
           /\ board' = unmake_move(board, top.mv)
           /\ moves' = top.moves
           /\ stack' = SubSeq(stack, 1, Len(stack) - 1)
           /\ last' = [op |-> "unmake_move", mv |-> top.mv, before |-> board,
                       orig |-> top.orig]
    /\ UNCHANGED <<frames, perft, search, call>>

Next == GetLegalMoves \/ MakeMove \/ UnmakeMove

Spec == Init /\ [][Next]_vars

\* ------------------------------------------------------------------------
\* The explore model (chess.rs 903-920): explore(board, max_depth) from
\* Board::new(), one step per entry of an activation, per iteration of its
\* `for mv in moves` loop and per return.  An iteration whose recursive call
\* has max_depth - 1 <= 1 runs that call within the step.
\* ------------------------------------------------------------------------
MaxDepth == 3

InitExplore ==
    \E d \in 1..MaxDepth :
        /\ board = new.board
        /\ moves = <<>>
        /\ stack = <<>>
        /\ last = [op |-> "from_fen", mv |-> NoMove, before |-> new.board, orig |-> new.board]
        /\ frames = <<[max_depth |-> d, pc |-> "call", moves |-> <<>>, n |-> 0]>>
        /\ perft = [max_depth |-> d, n |-> 0, done |-> FALSE]
        /\ search = NoSearch
        /\ call = NoCall

\* let mut n = 0; let moves = board.get_legal_moves();
ExploreCall ==
    /\ frames # <<>>
    /\ frames[Len(frames)].pc = "call"
    /\ \E lm \in {get_legal_moves(board)} :
           /\ board' = lm.board
           /\ frames' = [frames EXCEPT ![Len(frames)] =
                             [@ EXCEPT !.pc = "loop", !.moves = lm.moves, !.n = 0]]
    /\ UNCHANGED <<moves, stack, last, perft, search, call>>

\* board.make_move(mv); n += explore(board, max_depth - 1); board.unmake_move(mv);
\* with the recursive call run within the step.
ExploreIterLeaf ==
    /\ frames # <<>>
    /\ frames[Len(frames)].pc = "loop"
    /\ frames[Len(frames)].moves # <<>>
    /\ frames[Len(frames)].max_depth - 1 <= 1
    /\ \E mv \in {Head(frames[Len(frames)].moves)} :
           \E sub \in {explore(make_move(board, mv), frames[Len(frames)].max_depth - 1)} :
               /\ board' = unmake_move(sub.board, mv)
               /\ frames' = [frames EXCEPT ![Len(frames)] =
                                 [@ EXCEPT !.n = @ + sub.n, !.moves = Tail(@)]]
    /\ UNCHANGED <<moves, stack, last, perft, search, call>>

\* board.make_move(mv); and the entry of explore(board, max_depth - 1).
ExploreIterCall ==
    /\ frames # <<>>
    /\ frames[Len(frames)].pc = "loop"
    /\ frames[Len(frames)].moves # <<>>
    /\ frames[Len(frames)].max_depth - 1 > 1
    /\ board' = make_move(board, Head(frames[Len(frames)].moves))
    /\ frames' = Append(frames, [max_depth |-> frames[Len(frames)].max_depth - 1,
                                 pc |-> "call", moves |-> <<>>, n |-> 0])
    /\ UNCHANGED <<moves, stack, last, perft, search, call>>

\* return n; and in the caller n += (the value); board.unmake_move(mv);
ExploreReturn ==
    /\ frames # <<>>
    /\ frames[Len(frames)].pc = "loop"
    /\ frames[Len(frames)].moves = <<>>
    /\ IF Len(frames) = 1
       THEN /\ perft' = [perft EXCEPT !.n = frames[1].n, !.done = TRUE]
            /\ frames' = <<>>
            /\ board' = board
       ELSE /\ board' = unmake_move(board, Head(frames[Len(frames) - 1].moves))
            /\ frames' = [SubSeq(frames, 1, Len(frames) - 1) EXCEPT ![Len(frames) - 1] =
                              [@ EXCEPT !.n = @ + frames[Len(frames)].n, !.moves = Tail(@)]]
            /\ perft' = perft
    /\ UNCHANGED <<moves, stack, last, search, call>>

NextExplore == ExploreCall \/ ExploreIterLeaf \/ ExploreIterCall \/ ExploreReturn

SpecExplore == InitExplore /\ [][NextExplore]_vars

\* ------------------------------------------------------------------------
\* The search model: play.rs asks a search for the position's score and move
\* (negamax and launch_alpha_beta, here both on the same position), then a
\* move of get_legal_moves is made.
\* ------------------------------------------------------------------------
MaxSeed == 2

InitSearch == InitOn(SearchFens)

Search ==
    /\ last.op \in {"from_fen", "make_move"}
    /\ \E depth \in 0..(MaxDepth - 1), seed \in 0..MaxSeed :
           \E nm \in {negamax(board, depth)} :
               \E ab \in {launch_alpha_beta(nm.board, depth, seed)} :
                   /\ board' = ab.board
                   /\ search' = [done |-> TRUE, depth |-> depth, negamax |-> nm.score,
                                 alpha_beta |-> ab.score,
                                 stuck |-> get_legal_moves(board).moves = <<>>]
                   /\ last' = [op |-> "search", mv |-> ab.best, before |-> board,
                               orig |-> board]
    /\ UNCHANGED <<moves, stack, frames, perft, call>>

NextSearch == Search \/ GetLegalMoves \/ MakeMove

SpecSearch == InitSearch /\ [][NextSearch]_vars

\* ------------------------------------------------------------------------
\* The quiescence model: the four searches of ai.rs, each called on its own
\* on a position of the game (play.rs picks one of them as its strategy), and
\* the call quiesce(board, alpha, beta) that alpha_beta_quiesce makes at
\* depth 0.  `search` holds what the call returned.
\* ------------------------------------------------------------------------
\* "7k/1p3Q2/8/P1K5/8/8/8/8 b - -": black's one move is the double step b7-b5,
\* after which a5xb6 en passant is among white's moves.
FenForcedStep ==
    << <<"7","k","/","1","p","3","Q","2","/","8","/","P","1","K","5","/",
         "8","/","8","/","8","/","8">>,
       <<"b">>, <<"-">>, <<"-">> >>

\* "1n6/P6k/8/8/8/8/8/K7 w - -": a white pawn one step from the farthest rank,
\* with a push and a capture onto it.
FenSeventh ==
    << <<"1","n","6","/","P","6","k","/","8","/","8","/","8","/","8","/","8","/",
         "K","7">>,
       <<"w">>, <<"-">>, <<"-">> >>

\* "7k/6Q1/6K1/8/8/8/8/8 b - -": the side to move is in check and has no move.
FenMated ==
    << <<"7","k","/","6","Q","1","/","6","K","1","/","8","/","8","/","8","/","8","/","8">>,
       <<"b">>, <<"-">>, <<"-">> >>

QuiesceFens == {FenKnight, FenForcedStep, FenSeventh, FenMated}

InitQuiesce == InitOn(QuiesceFens)

\* The (alpha, beta) windows quiesce is called with.
Windows == {<<-INF, INF>>, <<-INF, 0>>, <<0, INF>>}

SearchOps == {"negamax", "launch_alpha_beta", "launch_alpha_beta_quiesce", "quiesce"}

\* What a search call returned, and the call's depth and seed.
Returned(op, r, depth, seed, made) ==
    /\ board' = r.board
    /\ search' = [done |-> TRUE, depth |-> depth, seed |-> seed, score |-> r.score,
                  made |-> made]
    /\ last' = [op |-> op, mv |-> r.best, before |-> board, orig |-> board]
    /\ UNCHANGED <<moves, stack, frames, perft, call>>

Negamax ==
    /\ last.op \in {"from_fen", "make_move"}
    /\ Len(stack) < MaxPly
    /\ \E depth \in 0..(MaxDepth - 1) :
           \E r \in {negamax(board, depth)} : Returned("negamax", r, depth, 0, <<>>)

LaunchAlphaBeta ==
    /\ last.op \in {"from_fen", "make_move"}
    /\ Len(stack) < MaxPly
    /\ \E depth \in 0..(MaxDepth - 1), seed \in 0..MaxSeed :
           \E r \in {launch_alpha_beta(board, depth, seed)} :
               Returned("launch_alpha_beta", r, depth, seed, <<>>)

LaunchAlphaBetaQuiesce ==
    /\ last.op \in {"from_fen", "make_move"}
    /\ Len(stack) < MaxPly
    /\ \E depth \in 0..(MaxDepth - 1), seed \in 0..MaxSeed :
           \E r \in {launch_alpha_beta_quiesce(board, depth, seed)} :
               Returned("launch_alpha_beta_quiesce", r, depth, seed, <<>>)

Quiesce ==
    /\ last.op \in {"from_fen", "make_move"}
    /\ Len(stack) < MaxPly
    /\ \E w \in Windows :
           \E q \in {quiesce(board, w[1], w[2])} :
               Returned("quiesce", [board |-> q.board, score |-> q.score, best |-> NoBest],
                        0, 0, q.made)

NextQuiesce ==
    Negamax \/ LaunchAlphaBeta \/ LaunchAlphaBetaQuiesce \/ Quiesce \/ GetLegalMoves \/ MakeMove

SpecQuiesce == InitQuiesce /\ [][NextQuiesce]_vars

\* ------------------------------------------------------------------------
\* The call model: from Board::new(), a function of the library called on
\* inputs of its own: slider_attacks_hq, Board::from_fen, and make_move on
\* the starting board or on the board from_fen built.  `call` holds the
\* inputs of the last call and what it returned.
\* ------------------------------------------------------------------------
InitCalls == InitOn({StartFen})

\* The steps from start to end of the moves given to make_move.
Steps == {-9, -8, -7, -1, 1, 7, 8, 9}

\* board.make_move(mv) for a move from any square of the board; the capture
\* field is filled as the generators fill it (knight.rs 85-92).
CallMakeMove ==
    /\ call.op \in {"none", "from_fen"}
    /\ call.op = "from_fen" => call.ret.ok
    /\ \E start \in Squares, d \in Steps :
           /\ start + d \in Squares
           /\ \E mv \in {Move(start, start + d, "None", EMPTY,
                              IF start + d \in Enemy(board)
                              THEN get_piece_type_on_square(board, start + d) ELSE NONE,
                              board)} :
                  IF make_move_panics(board, mv)
                  THEN /\ call' = [op |-> "make_move", mv |-> mv, board |-> board,
                                   panic |-> TRUE]
                       /\ UNCHANGED <<board, last>>
                  ELSE /\ call' = [op |-> "make_move", mv |-> mv, board |-> board,
                                   panic |-> FALSE]
                       /\ board' = make_move(board, mv)
                       /\ last' = [op |-> "make_move", mv |-> mv, before |-> board,
                                   orig |-> board]
    /\ UNCHANGED <<moves, stack, frames, perft, search>>

\* The inputs of Board::from_fen in the call model: a placement of eight
\* ranks with both kings, with one rank replaced, or with a rank dropped or
\* added; then the side to move, the castling field and the en-passant field.
KingRanks == <<<<"4","k","3">>, <<"8">>, <<"8">>, <<"8">>, <<"8">>, <<"8">>,
               <<"P","6","P">>, <<"R","3","K","2","R">>>>

RankInputs == {<<"8">>, <<"4","4">>, <<"P","7">>, <<"0","8">>, <<"7">>, <<"9">>,
               <<"5","4">>, <<"8","P">>, <<"P","8">>, <<"3","x","4">>, <<>>,
               <<"p","p","p","p","p","p","p","p","p">>, <<"4","K","3">>}

\* The ranks joined by '/'.
RECURSIVE Join(_)
Join(ranks) ==
    IF Len(ranks) = 0 THEN <<>>
    ELSE IF Len(ranks) = 1 THEN ranks[1]
    ELSE (ranks[1] \o <<"/">>) \o Join(Tail(ranks))

PlacementInputs ==
    {Join([KingRanks EXCEPT ![i] = r]) : i \in {1, 4, 8}, r \in RankInputs}
        \cup {Join(KingRanks), Join(Tail(KingRanks)), Join(KingRanks \o <<<<"8">>>>)}

CastlingInputs == {<<"-">>, <<"K","Q","k","q">>, <<"K">>, <<"x">>, <<"K","x">>, <<"K","-">>}

EnPassantInputs == {<<"-">>, <<"e","3">>, <<"a","6">>, <<"h","8">>, <<"e">>, <<"3">>,
                    <<"3","e">>, <<"E","3">>, <<"e","9">>, <<"i","3">>, <<"e","0">>,
                    <<"e","3","x">>, <<"e","-">>}

\* "r3k2r/1P4P1/8/8/8/8/1p4p1/R3K2R": each rook on its home corner next to
\* a pawn of the other side.
CornerRanks == <<<<"r","3","k","2","r">>, <<"1","P","4","P","1">>, <<"8">>, <<"8">>,
                 <<"8">>, <<"8">>, <<"1","p","4","p","1">>, <<"R","3","K","2","R">>>>

FenInputs ==
    ({<<p, <<"w">>, c, e>> : p \in PlacementInputs, c \in {<<"-">>, <<"K","x">>},
                             e \in {<<"-">>, <<"e">>}}
        \cup {<<Join(KingRanks), a, c, e>> : a \in {<<"w">>, <<"b">>},
                                            c \in CastlingInputs, e \in EnPassantInputs})
        \cup {<<Join(CornerRanks), a, <<"K","Q","k","q">>, <<"-">>>> :
                  a \in {<<"w">>, <<"b">>}}

\* Board::from_fen(fen) on one of the inputs, in either build.
CallFromFen ==
    /\ call.op = "none"
    /\ \E fen \in FenInputs, overflow_checks \in BOOLEAN :
           \E r \in {from_fen(fen, overflow_checks)} :
               /\ call' = [op |-> "from_fen", fen |-> fen, ret |-> r]
               /\ IF r.ok
                  THEN /\ board' = r.board
                       /\ last' = [op |-> "from_fen", mv |-> NoMove, before |-> r.board,
                                   orig |-> r.board]
                  ELSE UNCHANGED <<board, last>>
    /\ UNCHANGED <<moves, stack, frames, perft, search>>

\* The inputs of slider_attacks_hq in the call model: a square, one of its
\* four axis masks, and an occupancy holding the square, up to MaxBlockers
\* other squares of the axis and either none or all of the squares off it.
MaxBlockers == 2

Axes == {"rank", "file", "diagonal", "antidiagonal"}

\* The mask the callers pass for the axis (rook.rs 113-115, bishop.rs 117-119).
axis_mask(sq, axis) ==
    IF axis = "rank" THEN rank_mask(sq)
    ELSE IF axis = "file" THEN file_mask(sq)
    ELSE IF axis = "diagonal" THEN diagonal_mask(sq)
    ELSE antidiagonal_mask(sq)

CallSliderAttacks ==
    /\ call.op = "none"
    /\ \E sq \in Squares, axis \in Axes :
           \E on \in SUBSET (axis_mask(sq, axis) \ {sq}),
              off \in {{}, Squares \ axis_mask(sq, axis)} :
               /\ Cardinality(on) <= MaxBlockers
               /\ call' = [op |-> "slider_attacks_hq", sq |-> sq, axis |-> axis,
                           occ |-> ({sq} \cup on) \cup off,
                           ret |-> slider_attacks_hq(sq, ({sq} \cup on) \cup off,
                                                     axis_mask(sq, axis))]
    /\ UNCHANGED <<board, moves, stack, last, frames, perft, search>>

\* ------------------------------------------------------------------------
\* moves.rs: slider_attacks_hq with the doubling written as a product
\* ------------------------------------------------------------------------
\* 2 * x on a u64: the product is 2^64 or more when bit 63 of x is set.
mul2_overflows(bb) == 63 \in bb

\* 2 * x modulo 2^64.
mul2_wrapped(bb) == Shl(bb, 1)

\* What slider_attacks_hq of moves.rs returns when neither product traps.
moves_slider_mask(occ_masked, bit, rev_bit, mask) ==
    Xor(WrappingSub(occ_masked, mul2_wrapped(bit)),
        ReverseBits(WrappingSub(ReverseBits(occ_masked), mul2_wrapped(rev_bit))))
        \cap mask

\* slider_attacks_hq of moves.rs (lines 27-50). overflow_checks: the build
\* traps an overflowing product (`attempt to multiply with overflow`, the
\* debug profile) or wraps it (the release profile).
moves_slider_attacks_hq(sq, occ, mask, overflow_checks) ==
    IF overflow_checks /\ mul2_overflows(Bit(sq))
    THEN [panic |-> TRUE, err |-> "attempt to multiply with overflow", mask |-> {}]
    ELSE IF overflow_checks /\ mul2_overflows(ReverseBits(Bit(sq)))
    THEN [panic |-> TRUE, err |-> "attempt to multiply with overflow", mask |-> {}]
    ELSE [panic |-> FALSE, err |-> "",
          mask |-> moves_slider_mask(occ \cap mask, Bit(sq), ReverseBits(Bit(sq)), mask)]

\* slider_attacks_hq of moves.rs on the inputs of CallSliderAttacks, in
\* either build.
CallMovesSliderAttacks ==
    /\ call.op = "none"
    /\ \E sq \in Squares, axis \in Axes, overflow_checks \in BOOLEAN :
           \E on \in SUBSET (axis_mask(sq, axis) \ {sq}),
              off \in {{}, Squares \ axis_mask(sq, axis)} :
               /\ Cardinality(on) <= MaxBlockers
               /\ call' = [op |-> "moves_slider_attacks_hq", sq |-> sq, axis |-> axis,
                           occ |-> ({sq} \cup on) \cup off,
                           overflow_checks |-> overflow_checks,
                           ret |-> moves_slider_attacks_hq(sq, ({sq} \cup on) \cup off,
                                                           axis_mask(sq, axis),
                                                           overflow_checks)]
    /\ UNCHANGED <<board, moves, stack, last, frames, perft, search>>

\* The pawns of the side to move, the rank index they promote on, and the
\* kinds a pawn promotes to.
PawnsToMove(b) == IF b.white_to_play THEN b.white_pawns ELSE b.black_pawns
FarthestRank(b) == IF b.white_to_play THEN 7 ELSE 0
PromotionKinds == {KNIGHT, BISHOP, ROOK, QUEEN}

\* board.make_move(mv) for a promotion: a pawn of the side to move one step
\* from its last rank, pushed to an empty square or capturing diagonally,
\* with context Promotion(promoted).
CallMakePromotion ==
    /\ call.op = "from_fen"
    /\ call.ret.ok
    /\ \E start \in PawnsToMove(board), d \in {7, 8, 9}, promoted \in PromotionKinds :
           \E end \in {IF board.white_to_play THEN start + d ELSE start - d} :
               /\ end \in Squares
               /\ RankOf(end) = FarthestRank(board)
               /\ FileOf(end) - FileOf(start) \in {-1, 0, 1}
               /\ IF d = 8 THEN end \notin board.pieces ELSE end \in Enemy(board)
               /\ \E mv \in {Move(start, end, "Promotion", promoted,
                                  IF d = 8 THEN NONE
                                  ELSE get_piece_type_on_square(board, end),
                                  board)} :
                      /\ ~make_move_panics(board, mv)
                      /\ call' = [op |-> "make_move", mv |-> mv, board |-> board,
                                  panic |-> FALSE]
                      /\ board' = make_move(board, mv)
                      /\ last' = [op |-> "make_move", mv |-> mv, before |-> board,
                                  orig |-> board]
    /\ UNCHANGED <<moves, stack, frames, perft, search>>

\* board.unmake_move(mv) for the move the last make_move made.
CallUnmakeMove ==
    /\ call.op = "make_move"
    /\ ~call.panic
    /\ ~unmake_move_panics(board, call.mv)
    /\ call' = [op |-> "unmake_move", mv |-> call.mv, board |-> board,
                orig |-> call.board]
    /\ board' = unmake_move(board, call.mv)
    /\ last' = [op |-> "unmake_move", mv |-> call.mv, before |-> board,
                orig |-> call.board]
    /\ UNCHANGED <<moves, stack, frames, perft, search>>

\* knight_mask(sq) and king_mask(sq): a read of the const table.
CallKnightMask ==
    /\ call.op = "none"
    /\ \E sq \in Squares :
           call' = [op |-> "knight_mask", sq |-> sq, ret |-> knight_mask(sq)]
    /\ UNCHANGED <<board, moves, stack, last, frames, perft, search>>

CallKingMask ==
    /\ call.op = "none"
    /\ \E sq \in Squares :
           call' = [op |-> "king_mask", sq |-> sq, ret |-> king_mask(sq)]
    /\ UNCHANGED <<board, moves, stack, last, frames, perft, search>>

NextCalls ==
    \/ CallMakeMove
    \/ CallFromFen
    \/ CallSliderAttacks
    \/ CallMovesSliderAttacks
    \/ CallKnightMask
    \/ CallKingMask
    \/ CallMakePromotion
    \/ CallUnmakeMove

SpecCalls == InitCalls /\ [][NextCalls]_vars

\* ------------------------------------------------------------------------
\* The quiescence step model (ai.rs 140-175): one call quiesce(board, alpha,
\* beta) from a start position, one step per entry of an activation, per
\* iteration of its `for mv in ...` loop and per return.  `frames` holds the
\* locals of the activations, the innermost last.  The program is sequential:
\* a step that can be taken is taken.
\* ------------------------------------------------------------------------
\* The nesting the model follows the recursion to.
MaxNesting == 4

\* "4k3/8/8/3pP3/8/8/8/4K3 w - d6": an en-passant capture is available.
FenTarget ==
    << <<"4","k","3","/","8","/","8","/","3","p","P","3","/","8","/","8","/","8","/",
         "4","K","3">>,
       <<"w">>, <<"-">>, <<"d","6">> >>

StepFens == {StartFen, FenKnight, FenForcedStep, FenSeventh, FenMated, FenTarget}

\* The locals of one activation of quiesce.
QuiesceFrame(pc, alpha, beta, best_value, mvs, score) ==
    [pc |-> pc, alpha |-> alpha, beta |-> beta, best_value |-> best_value,
     moves |-> mvs, score |-> score]

InitQuiesceSteps ==
    \E fen \in StepFens, overflow_checks \in BOOLEAN, w \in Windows :
        \E r \in {from_fen(fen, overflow_checks)} :
            /\ r.ok
            /\ board = r.board
            /\ moves = <<>>
            /\ stack = <<>>
            /\ last = [op |-> "from_fen", mv |-> NoMove, before |-> r.board, orig |-> r.board]
            /\ frames = <<QuiesceFrame("call", w[1], w[2], 0, <<>>, 0)>>
            /\ perft = NoPerft
            /\ search = NoSearch
            /\ call = [op |-> "quiesce", alpha |-> w[1], beta |-> w[2]]

\* if best_value >= beta { return best_value; } without its test.
stand_pat_never(best_value, beta) == FALSE

\* if best_value >= beta { return best_value; } (ai.rs 143-145).
stand_pat_cuts(best_value, beta) == best_value >= beta

\* let mut best_value = board.evaluate(); the stand-pat return, else the raise
\* of alpha and board.get_legal_moves() (ai.rs 142-152).
QuiesceEnter ==
    /\ frames # <<>>
    /\ frames[Len(frames)].pc = "call"
    /\ \E best_value \in {evaluate(board)} :
           IF stand_pat_cuts(best_value, frames[Len(frames)].beta)
           THEN /\ frames' = [frames EXCEPT ![Len(frames)] =
                                  [@ EXCEPT !.pc = "return", !.score = best_value]]
                /\ board' = board
           ELSE \E lm \in {get_legal_moves(board)} :
                    /\ board' = lm.board
                    /\ frames' = [frames EXCEPT ![Len(frames)] =
                                      [@ EXCEPT !.pc = "loop",
                                                !.best_value = best_value,
                                                !.alpha = IF best_value > @ THEN best_value
                                                          ELSE @,
                                                !.moves = lm.moves]]
    /\ UNCHANGED <<moves, stack, last, perft, search, call>>

\* if mv.capture != None { continue; } (ai.rs 154-157).
QuiesceSkip ==
    /\ frames # <<>>
    /\ frames[Len(frames)].pc = "loop"
    /\ frames[Len(frames)].moves # <<>>
    /\ Head(frames[Len(frames)].moves).capture # NONE
    /\ frames' = [frames EXCEPT ![Len(frames)] = [@ EXCEPT !.moves = Tail(@)]]
    /\ UNCHANGED <<board, moves, stack, last, perft, search, call>>

\* board.make_move(*mv); and the entry of quiesce(board, -beta, -alpha)
\* (ai.rs 158-159).
QuiesceDescend ==
    /\ frames # <<>>
    /\ Len(frames) < MaxNesting
    /\ frames[Len(frames)].pc = "loop"
    /\ frames[Len(frames)].moves # <<>>
    /\ Head(frames[Len(frames)].moves).capture = NONE
    /\ board' = make_move(board, Head(frames[Len(frames)].moves))
    /\ frames' = Append(frames, QuiesceFrame("call", -frames[Len(frames)].beta,
                                             -frames[Len(frames)].alpha, 0, <<>>, 0))
    /\ UNCHANGED <<moves, stack, last, perft, search, call>>

\* The loop is over: return best_value (ai.rs 174).
QuiesceLoopEnd ==
    /\ frames # <<>>
    /\ frames[Len(frames)].pc = "loop"
    /\ frames[Len(frames)].moves = <<>>
    /\ frames' = [frames EXCEPT ![Len(frames)] =
                      [@ EXCEPT !.pc = "return",
                                !.score = frames[Len(frames)].best_value]]
    /\ UNCHANGED <<board, moves, stack, last, perft, search, call>>

\* The caller after the return of the nested call: score = -(the value);
\* board.unmake_move(*mv); the cut-off on beta, else the raises of best_value
\* and alpha and the next iteration (ai.rs 159-172).
QuiesceResumed(caller, score) ==
    IF score >= caller.beta
    THEN [caller EXCEPT !.pc = "return", !.score = score]
    ELSE [caller EXCEPT !.best_value = IF score > @ THEN score ELSE @,
                        !.alpha = IF score > @ THEN score ELSE @,
                        !.moves = Tail(@)]

\* return of an activation: to its caller, or of the call itself.
QuiesceReturn ==
    /\ frames # <<>>
    /\ frames[Len(frames)].pc = "return"
    /\ IF Len(frames) = 1
       THEN /\ search' = [done |-> TRUE, depth |-> 0, seed |-> 0,
                          score |-> frames[1].score, made |-> <<>>]
            /\ last' = [op |-> "quiesce", mv |-> NoBest, before |-> last.before,
                        orig |-> last.orig]
            /\ frames' = <<>>
            /\ board' = board
       ELSE /\ board' = unmake_move(board, Head(frames[Len(frames) - 1].moves))
            /\ frames' = [SubSeq(frames, 1, Len(frames) - 1) EXCEPT ![Len(frames) - 1] =
                              QuiesceResumed(@, -frames[Len(frames)].score)]
            /\ UNCHANGED <<search, last>>
    /\ UNCHANGED <<moves, stack, perft, call>>

NextQuiesceSteps ==
    \/ QuiesceEnter
    \/ QuiesceSkip
    \/ QuiesceDescend
    \/ QuiesceLoopEnd
    \/ QuiesceReturn

\* A step of the call can be taken: an activation is live, and the nesting is
\* one the model follows.  It is ENABLED <<NextQuiesceSteps>>_vars, written
\* as a condition on the state.
QuiesceRunning ==
    /\ frames # <<>>
    /\ ~(/\ frames[Len(frames)].pc = "loop"
         /\ frames[Len(frames)].moves # <<>>
         /\ Head(frames[Len(frames)].moves).capture = NONE
         /\ Len(frames) >= MaxNesting)

\* Weak fairness of the step, WF_vars(NextQuiesceSteps): the thread that runs
\* quiesce is not suspended.  ENABLED is written as QuiesceRunning, and a step
\* of NextQuiesceSteps as a step that changes the state, which is what the
\* steps of the specification are.
QuiesceFairness ==
    \/ []<>(~QuiesceRunning)
    \/ []<><<TRUE>>_vars

SpecQuiesceSteps == InitQuiesceSteps /\ [][NextQuiesceSteps]_vars /\ QuiesceFairness

\* ------------------------------------------------------------------------
\* The deep search model: negamax, launch_alpha_beta or
\* launch_alpha_beta_quiesce called with a depth of 1 to MaxDeep on a start
\* position with few pieces.
\* ------------------------------------------------------------------------
MaxDeep == 3

\* "6k1/4P2P/3N3K/8/8/8/8/8 b - -": black's one move is Kg8-h8, after which
\* the knight mates on f7.
FenCornered ==
    << <<"6","k","1","/","4","P","2","P","/","3","N","3","K","/","8","/","8","/","8","/",
         "8","/","8">>,
       <<"b">>, <<"-">>, <<"-">> >>

DeepFens ==
    {FenCornered, FenMated, FenKnight, FenTarget, FenEnPassant, FenPush, FenNoMove, FenSeventh}

InitDeep == InitOn(DeepFens)

DeepNegamax ==
    /\ last.op = "from_fen"
    /\ \E depth \in 1..MaxDeep :
           \E r \in {negamax(board, depth)} : Returned("negamax", r, depth, 0, <<>>)

DeepLaunchAlphaBeta ==
    /\ last.op = "from_fen"
    /\ \E depth \in 1..MaxDeep, seed \in 0..MaxSeed :
           \E r \in {launch_alpha_beta(board, depth, seed)} :
               Returned("launch_alpha_beta", r, depth, seed, <<>>)

DeepLaunchAlphaBetaQuiesce ==
    /\ last.op = "from_fen"
    /\ \E depth \in 1..MaxDeep, seed \in 0..MaxSeed :
           \E r \in {launch_alpha_beta_quiesce(board, depth, seed)} :
               Returned("launch_alpha_beta_quiesce", r, depth, seed, <<>>)

NextDeep == DeepNegamax \/ DeepLaunchAlphaBeta \/ DeepLaunchAlphaBetaQuiesce

SpecDeep == InitDeep /\ [][NextDeep]_vars

\* ------------------------------------------------------------------------
\* The play model (play.rs 14-93): the turn loop of play() with two of the
\* strategies that ask no input.  play() builds the standard start; the model
\* enters the loop at a position of a game with few pieces, the turns before
\* it left out, and runs the loop for MaxFullMoves instead of 500 black moves.
\* `call` holds the locals of play(): the strategies, n, game_result and
\* whether the loop is running; `last` holds the last turn.
\* ------------------------------------------------------------------------
MaxFullMoves == 2

\* negamax(board, 4), launch_alpha_beta(board, 4),
\* launch_alpha_beta_quiesce(board, 4) (play.rs 129, 135, 141).
StrategyDepth == 4

Strategies == {"random", "negamax", "alphabeta", "alphabetaq"}

PlayFens == {FenCornered, FenMated, FenNoMove, FenPush}

InitPlay ==
    \E fen \in PlayFens, overflow_checks \in BOOLEAN,
       white_strategy \in Strategies, black_strategy \in Strategies :
        \E r \in {from_fen(fen, overflow_checks)} :
            /\ r.ok
            /\ board = r.board
            /\ moves = <<>>
            /\ stack = <<>>
            /\ last = [op |-> "from_fen", mv |-> NoMove, before |-> r.board, orig |-> r.board]
            /\ frames = <<>>
            /\ perft = NoPerft
            /\ search = NoSearch
            /\ call = [op |-> "play", white_strategy |-> white_strategy,
                       black_strategy |-> black_strategy, n |-> 0,
                       game_result |-> "Stalemate", pc |-> "loop"]

\* board.get_legal_moves().choose(&mut rand::rng()).cloned() (play.rs 122-125):
\* any move of the list, None when the list is empty.
random_strategy(lm) ==
    IF lm.moves = <<>>
    THEN {[board |-> lm.board, best |-> NoBest]}
    ELSE {[board |-> lm.board, best |-> lm.moves[i]] : i \in 1..Len(lm.moves)}

\* The move a search returned, and the board it left (play.rs 127-143).
search_strategy(r) == [board |-> r.board, best |-> r.best]

\* What the strategy called `name` can return on the board.
strategy(name, b) ==
    CASE name = "random" -> random_strategy(get_legal_moves(b))
      [] name = "negamax" -> {search_strategy(negamax(b, StrategyDepth))}
      [] name = "alphabeta" ->
            {search_strategy(launch_alpha_beta(b, StrategyDepth, seed)) : seed \in 0..MaxSeed}
      [] name = "alphabetaq" ->
            {search_strategy(launch_alpha_beta_quiesce(b, StrategyDepth, seed)) :
                 seed \in 0..MaxSeed}

\* The arm of the loop body without its `n += 1`.
PlayTurn_uncounted(r, counted, other) ==
    /\ IF r.best = NoBest
       THEN /\ board' = r.board
            /\ call' = [call EXCEPT !.pc = "returned",
                                    !.game_result = IF is_king_attacked(r.board, FALSE)
                                                    THEN other ELSE @]
       ELSE /\ board' = make_move(r.board, r.best)
            /\ call' = call
    /\ last' = [op |-> "play", mv |-> r.best, before |-> board, orig |-> board]
    /\ UNCHANGED <<moves, stack, frames, perft, search>>

\* One arm of the loop body (play.rs 47-64 and 69-87): Some(mv) is made, and
\* counted when black's; on None the result is the other side's when the king
\* is attacked, and the loop is left.
PlayTurn(r, counted, other) ==
    /\ IF r.best = NoBest
       THEN /\ board' = r.board
            /\ call' = [call EXCEPT !.pc = "returned",
                                    !.game_result = IF is_king_attacked(r.board, FALSE)
                                                    THEN other ELSE @]
       ELSE /\ board' = make_move(r.board, r.best)
            /\ call' = [call EXCEPT !.n = @ + counted]
    /\ last' = [op |-> "play", mv |-> r.best, before |-> board, orig |-> board]
    /\ UNCHANGED <<moves, stack, frames, perft, search>>

\* if board.white_to_play { match white_strategy(&mut board) ... }
PlayWhite ==
    /\ call.op = "play"
    /\ call.pc = "loop"
    /\ call.n < MaxFullMoves
    /\ board.white_to_play
    /\ \E r \in strategy(call.white_strategy, board) : PlayTurn(r, 0, "Black")

\* else { match black_strategy(&mut board) ... n += 1 ... }
PlayBlack ==
    /\ call.op = "play"
    /\ call.pc = "loop"
    /\ call.n < MaxFullMoves
    /\ ~board.white_to_play
    /\ \E r \in strategy(call.black_strategy, board) : PlayTurn(r, 1, "White")

\* while n < 500 is over: return Ok(game_result) (play.rs 42, 89-90).
PlayBound ==
    /\ call.op = "play"
    /\ call.pc = "loop"
    /\ call.n >= MaxFullMoves
    /\ call' = [call EXCEPT !.pc = "returned"]
    /\ last' = [op |-> "play_bound", mv |-> NoMove, before |-> board, orig |-> board]
    /\ UNCHANGED <<board, moves, stack, frames, perft, search>>

NextPlay == PlayWhite \/ PlayBlack \/ PlayBound

\* The loop can take a turn or leave: ENABLED <<NextPlay>>_vars, written as a
\* condition on the state.
PlayRunning == call.op = "play" /\ call.pc = "loop"

\* Weak fairness of the loop, WF_vars(NextPlay): the thread that runs play()
\* is not suspended.  ENABLED is written as PlayRunning, and a step of
\* NextPlay as a step that changes the state, which is what the steps of the
\* specification are.
PlayFairness ==
    \/ []<>(~PlayRunning)
    \/ []<><<TRUE>>_vars

SpecPlay == InitPlay /\ [][NextPlay]_vars /\ PlayFairness

\* ------------------------------------------------------------------------
\* The game model: from the standard start, or from a later position of a
\* game with the four rooks and the two kings left, get_legal_moves and
\* make_move of one of the returned moves, MaxPly plies deep.
\* ------------------------------------------------------------------------
\* "r3k2r/8/8/8/8/8/8/R3K2R w KQkq -"
FenRooks ==
    << <<"r","3","k","2","r","/","8","/","8","/","8","/","8","/","8","/","8","/",
         "R","3","K","2","R">>,
       <<"w">>, <<"K","Q","k","q">>, <<"-">> >>

\* "4k3/1p4p1/8/P6P/p6p/8/1P4P1/4K3 w - -": pawns on the a-file and the h-file
\* on the rank they capture en passant from, next to the files of pawns that
\* have not moved yet.
FenEdgePawns ==
    << <<"4","k","3","/","1","p","4","p","1","/","8","/","P","6","P","/",
         "p","6","p","/","8","/","1","P","4","P","1","/","4","K","3">>,
       <<"w">>, <<"-">>, <<"-">> >>

\* "4k3/8/8/pp6/P6p/6PP/8/4K3 w - -": pawns on the a-file and the h-file with
\* an enemy pawn on the square a capture shifted across the edge would land on
\* (a4 and h4, h3 and a5), and enemy pawns they do attack (a4xb5, h4xg3).
FenWrap ==
    << <<"4","k","3","/","8","/","8","/","p","p","6","/","P","6","p","/",
         "6","P","P","/","8","/","4","K","3">>,
       <<"w">>, <<"-">>, <<"-">> >>

GameFens == {StartFen, FenRooks, FenEdgePawns, FenWrap}

InitGame == InitOn(GameFens)

NextGame == GetLegalMoves \/ MakeMove

SpecGame == InitGame /\ [][NextGame]_vars

\* ------------------------------------------------------------------------
\* Reference notions the properties are stated with.
\* ------------------------------------------------------------------------
CastlingFlags == {"white_queen_side_castling_right", "white_king_side_castling_right",
                  "black_queen_side_castling_right", "black_king_side_castling_right"}

Abs(x) == IF x < 0 THEN -x ELSE x

Sgn(x) == IF x < 0 THEN -1 ELSE IF x > 0 THEN 1 ELSE 0

\* The squares strictly between two squares of one rank, file or diagonal.
SquaresBetween(a, b) ==
    LET df == FileOf(b) - FileOf(a)
        dr == RankOf(b) - RankOf(a)
        n == IF Abs(df) > Abs(dr) THEN Abs(df) ELSE Abs(dr)
    IN  IF df = 0 \/ dr = 0 \/ Abs(df) = Abs(dr)
        THEN {a + k * (8 * Sgn(dr) + Sgn(df)) : k \in 1..(n - 1)}
        ELSE {}

\* The piece of the given colour on s attacks t, by the rules of chess.
Attacks(b, s, t, white) ==
    LET df == FileOf(t) - FileOf(s)
        dr == RankOf(t) - RankOf(s)
        pawns == IF white THEN b.white_pawns ELSE b.black_pawns
        knights == IF white THEN b.white_knights ELSE b.black_knights
        rooks == IF white THEN b.white_rooks ELSE b.black_rooks
        bishops == IF white THEN b.white_bishops ELSE b.black_bishops
        queens == IF white THEN b.white_queens ELSE b.black_queens
        king == IF white THEN b.white_king ELSE b.black_king
    IN  /\ s # t
        /\ \/ s \in pawns /\ Abs(df) = 1 /\ dr = (IF white THEN 1 ELSE -1)
           \/ s \in knights /\ {Abs(df), Abs(dr)} = {1, 2}
           \/ s = king /\ Abs(df) <= 1 /\ Abs(dr) <= 1
           \/ s \in (rooks \cup queens) /\ (df = 0 \/ dr = 0)
                /\ SquaresBetween(s, t) \cap b.pieces = {}
           \/ s \in (bishops \cup queens) /\ Abs(df) = Abs(dr)
                /\ SquaresBetween(s, t) \cap b.pieces = {}

AttackedBy(b, t, white) == \E s \in Squares : Attacks(b, s, t, white)

MovesSet == {moves[i] : i \in 1..Len(moves)}

\* ------------------------------------------------------------------------
\* Properties
\* ------------------------------------------------------------------------

\* C1 (reversibility): make_move(m) followed by unmake_move(m), for a move m
\* that get_legal_moves returned for the position p, leaves the board equal to
\* p in every field.  Stated for the pair as the program runs it (unmake_move
\* right after make_move) and for every move returned for the position
\* get_legal_moves was called on.
C1_Reversible ==
    /\ (last.op = "unmake_move" /\ last.before = make_move(last.orig, last.mv))
           => board = last.orig
    /\ last.op = "get_legal_moves"
           => \A m \in MovesSet :
                  unmake_move(make_move(last.before, m), m) = last.before

\* A move was made and unmade at once.
C1_Witness ==
    /\ last.op = "unmake_move"
    /\ last.before = make_move(last.orig, last.mv)
    /\ board = last.orig

\* C2 (occupancy consistency): after from_fen and after every make_move or
\* unmake_move, white_pieces is the union of the five white per-type masks and
\* the white king bit, black_pieces the same for black, and pieces is
\* white_pieces | black_pieces.
C2_OccupancyConsistent ==
    last.op \in {"from_fen", "make_move", "unmake_move"} =>
        /\ board.white_pieces =
               board.white_pawns \cup board.white_rooks \cup board.white_knights
                   \cup board.white_bishops \cup board.white_queens \cup Bit(board.white_king)
        /\ board.black_pieces =
               board.black_pawns \cup board.black_rooks \cup board.black_knights
                   \cup board.black_bishops \cup board.black_queens \cup Bit(board.black_king)
        /\ board.pieces = board.white_pieces \cup board.black_pieces

\* C3 (legality soundness): after make_move of a move get_legal_moves
\* returned, the king of the side that just moved is not attacked by any piece
\* of the side now to move, by the real chess attack geometry.
C3_LegalitySound ==
    last.op = "make_move" =>
        ~AttackedBy(board,
                    IF board.white_to_play THEN board.black_king ELSE board.white_king,
                    board.white_to_play)

\* C9 (castling rights are monotone): no make_move sets a castling flag that
\* was false to true.
C9_RightsMonotone ==
    last.op = "make_move" =>
        \A f \in CastlingFlags : board[f] => last.before[f]

\* A make_move cleared a castling flag.
C9_Witness ==
    /\ last.op = "make_move"
    /\ \E f \in CastlingFlags : last.before[f] /\ ~board[f]

\* C10 (one king per side): no returned move captures a king, and each king's
\* square is in its own side's aggregate mask and not in the opponent's.
C10_OneKingPerSide ==
    /\ \A m \in MovesSet : m.capture # KING
    /\ board.white_king \in board.white_pieces
    /\ board.white_king \notin board.black_pieces
    /\ board.black_king \in board.black_pieces
    /\ board.black_king \notin board.white_pieces

\* The castle moves generate_king_moves produces on the board.
CastlesOf(b) ==
    LET km == generate_king_moves(b).moves
    IN  {km[i] : i \in {j \in 1..Len(km) :
                          km[j].context \in {"QueenSideCastle", "KingSideCastle"}}}

\* The right flag a castle move of the side to move uses.
RightOf(b, m) ==
    IF b.white_to_play
    THEN (IF m.context = "KingSideCastle" THEN b.white_king_side_castling_right
          ELSE b.white_queen_side_castling_right)
    ELSE (IF m.context = "KingSideCastle" THEN b.black_king_side_castling_right
          ELSE b.black_queen_side_castling_right)

\* The rook's corner of a castle move of the side to move.
CornerOf(b, m) ==
    IF b.white_to_play
    THEN (IF m.context = "KingSideCastle" THEN 7 ELSE 0)
    ELSE (IF m.context = "KingSideCastle" THEN 63 ELSE 56)

\* C5 (castling gating): generate_king_moves produces a castle move for the
\* side to move only if the corresponding right flag is true, every square
\* strictly between the king and that rook is unoccupied, and none of the
\* king's start, transit and destination squares is attacked by the opponent.
C5_CastlingGated ==
    last.op \in {"from_fen", "make_move"} =>
        \A m \in CastlesOf(board) :
            /\ RightOf(board, m)
            /\ SquaresBetween(m.start, CornerOf(board, m)) \cap board.pieces = {}
            /\ \A sq \in {m.start, (m.start + m.end) \div 2, m.end} :
                   ~AttackedBy(board, sq, ~board.white_to_play)

\* generate_king_moves produces a castle move.
C5_Witness ==
    /\ last.op = "make_move"
    /\ CastlesOf(board) # {}

\* The flag f was true on the board b and is false after make_move(b, mv).
Clears(b, mv, f) == b[f] /\ ~make_move(b, mv)[f]

\* C6 (permanent loss of castling rights): a flag cleared by a make_move stays
\* false across every later make_move and the unmake_move of that later move,
\* as long as the clearing move itself is not unmade; a flag goes from false
\* to true only by unmake_move of a move that cleared it.
C6_RightsLostForGood ==
    /\ \A i \in 1..Len(stack) : \A f \in CastlingFlags :
           Clears(stack[i].orig, stack[i].mv, f) => ~board[f]
    /\ \A f \in CastlingFlags :
           (~last.before[f] /\ board[f]) =>
               (last.op = "unmake_move" /\ Clears(last.orig, last.mv, f))

\* A rook left its corner or a king moved, clearing a right; a later move was
\* made and unmade, and the right is still cleared.
C6_Witness ==
    /\ last.op = "unmake_move"
    /\ Len(stack) = 1
    /\ \E f \in CastlingFlags : Clears(stack[1].orig, stack[1].mv, f) /\ ~board[f]
    /\ stack[1].mv.context = "None"

\* C7 (en-passant window): an en-passant capture onto t is among the moves of
\* a position only if the last move made was the double step that passed over
\* t; after a make_move that is not a double step en_passant_target is None,
\* and no en-passant capture is among the moves of that position.
C7_EnPassantWindow ==
    /\ \A m \in MovesSet :
           m.context = "EnPassant" =>
               /\ stack # <<>>
               /\ stack[Len(stack)].mv.context = "DoubleStep"
               /\ 2 * m.end = stack[Len(stack)].mv.start + stack[Len(stack)].mv.end
    /\ (last.op = "make_move" /\ last.mv.context # "DoubleStep")
           => board.en_passant_target = NONE

\* An en-passant capture is among the moves right after the double step.
C7_Witness ==
    /\ last.op = "get_legal_moves"
    /\ \E m \in MovesSet : m.context = "EnPassant"

\* A move that is no double step was made right after a double step.
C7_WitnessAfter ==
    /\ last.op = "make_move"
    /\ last.mv.context # "DoubleStep"
    /\ Len(stack) >= 2
    /\ stack[Len(stack) - 1].mv.context = "DoubleStep"
    /\ board.en_passant_target = NONE

\* C4 (move-count fidelity): from Board::new() explore(board, d) returns 20
\* for d = 1, 400 for d = 2 and 8902 for d = 3.
C4_MoveCounts ==
    perft.done =>
        /\ perft.max_depth = 1 => perft.n = 20
        /\ perft.max_depth = 2 => perft.n = 400
        /\ perft.max_depth = 3 => perft.n = 8902

\* explore(board, 2) returned 400.
C4_Witness ==
    /\ perft.done
    /\ perft.max_depth = 2
    /\ perft.n = 400

\* C8 (search agreement): launch_alpha_beta(position, d) and
\* negamax(position, d) return the same score, also when a position of the
\* tree has no legal move for the side to move.
C8_SearchAgreement ==
    search.done => search.negamax = search.alpha_beta

\* Both searches ran on a position with a legal move, to depth 2.
C8_Witness ==
    /\ search.done
    /\ search.depth = 2
    /\ ~search.stuck
    /\ search.negamax = search.alpha_beta

\* C11 (stack discipline of search): when negamax, launch_alpha_beta,
\* launch_alpha_beta_quiesce or quiesce returns, every make_move it made has
\* been undone by the unmake_move of the same move, so the board equals the
\* board the search was called with.
C11_SearchRestoresBoard ==
    last.op \in SearchOps => board = last.before

\* negamax searched two plies deep and returned the board it was called with.
C11_Witness ==
    /\ last.op = "negamax"
    /\ search.depth = 2
    /\ last.mv # NoBest
    /\ board = last.before

\* C16 (quiescence move filter): every move quiesce passes to make_move, at
\* the top level and in its recursive calls, has a non-empty capture field; a
\* legal move whose capture field is empty is never applied.
C16_QuiesceAppliesCaptures ==
    last.op = "quiesce" =>
        \A i \in 1..Len(search.made) : search.made[i].capture # NONE

\* quiesce ran past its stand-pat test on a position that has both a legal
\* move with a capture and one without.
C16_Witness ==
    /\ last.op = "quiesce"
    /\ search.score < INF
    /\ \E lm \in {get_legal_moves(last.before).moves} :
           /\ \E i \in 1..Len(lm) : lm[i].capture # NONE
           /\ \E i \in 1..Len(lm) : lm[i].capture = NONE

\* The score of an alpha-beta search of the given depth in which every level
\* below the root is the same search one ply shallower and every depth-0 leaf
\* is scored by quiesce(position, alpha, beta).
RECURSIVE QuiescedScore(_, _, _, _, _)
RECURSIVE QuiescedLoop(_, _, _, _, _, _, _)
QuiescedNext(score, b, mvs, alpha, beta, depth, seed, max) ==
    IF score >= beta THEN (IF score > max THEN score ELSE max)
    ELSE QuiescedLoop(b, Tail(mvs), IF score > max /\ score > alpha THEN score ELSE alpha,
                      beta, depth, seed, IF score > max THEN score ELSE max)

QuiescedLoop(b, mvs, alpha, beta, depth, seed, max) ==
    IF mvs = <<>> THEN max
    ELSE QuiescedNext(-QuiescedScore(make_move(b, Head(mvs)), -beta, -alpha, depth - 1, seed),
                      b, mvs, alpha, beta, depth, seed, max)

QuiescedMoves(b, mvs, alpha, beta, depth, seed) ==
    IF mvs = <<>> THEN (IF is_king_attacked(b, FALSE) THEN -INF ELSE 0)
    ELSE QuiescedLoop(b, mvs, alpha, beta, depth, seed, -INF)

QuiescedScore(b, alpha, beta, depth, seed) ==
    IF depth = 0 THEN quiesce(b, alpha, beta).score
    ELSE QuiescedMoves(b, shuffle(get_legal_moves(b).moves, seed), alpha, beta, depth, seed)

\* C17 (quiescence at the leaves): for every depth d >= 1 the score of
\* launch_alpha_beta_quiesce(position, d) is the score of the search whose
\* depth-0 leaves are scored by quiesce, not by the static evaluation.
C17_QuiesceAtLeaves ==
    (last.op = "launch_alpha_beta_quiesce" /\ search.depth >= 1) =>
        search.score = QuiescedScore(last.before, -INF, INF, search.depth, search.seed)

\* launch_alpha_beta_quiesce searched one ply deep on a position whose leaf
\* quiesce scores otherwise than the static evaluation.
C17_Witness ==
    /\ last.op = "launch_alpha_beta_quiesce"
    /\ search.depth = 1
    /\ last.mv.context = "DoubleStep"
    /\ quiesce(make_move(last.before, last.mv), -INF, INF).score
           # evaluate(make_move(last.before, last.mv))

\* C12 (make_move without a piece to move): make_move panics whenever the
\* side to move has no pawn, rook, knight, bishop or queen bit at mv.start and
\* its king index differs from mv.start.
C12_PanicsWithoutPiece ==
    call.op = "make_move" =>
        LET b == call.board
        IN  (IF b.white_to_play
             THEN /\ call.mv.start \notin b.white_pawns
                  /\ call.mv.start \notin b.white_rooks
                  /\ call.mv.start \notin b.white_knights
                  /\ call.mv.start \notin b.white_bishops
                  /\ call.mv.start \notin b.white_queens
                  /\ call.mv.start # b.white_king
             ELSE /\ call.mv.start \notin b.black_pawns
                  /\ call.mv.start \notin b.black_rooks
                  /\ call.mv.start \notin b.black_knights
                  /\ call.mv.start \notin b.black_bishops
                  /\ call.mv.start \notin b.black_queens
                  /\ call.mv.start # b.black_king)
            => call.panic

\* make_move was called for a square that holds a piece of the side not to
\* move, and panicked.
C12_Witness ==
    /\ call.op = "make_move"
    /\ call.panic
    /\ call.mv.start \in Enemy(call.board)
    /\ board = call.board

\* The castling field holds a character other than K, Q, k, q and is not "-".
BadCastling(c) == c # <<"-">> /\ \E i \in 1..Len(c) : c[i] \notin {"K", "Q", "k", "q"}

\* The en-passant field is "-" or a file letter a-h followed by a rank digit
\* 1-8, and nothing else.
GoodEnPassant(e) ==
    \/ e = <<"-">>
    \/ /\ Len(e) = 2
       /\ e[1] \in {"a", "b", "c", "d", "e", "f", "g", "h"}
       /\ e[2] \in {"1", "2", "3", "4", "5", "6", "7", "8"}

\* C13 (errors of the castling and en-passant fields): from_fen returns an
\* Err value, and neither panics nor returns Ok, for every input whose
\* castling field holds a character other than K, Q, k, q (and is not "-") or
\* whose en-passant field is neither "-" nor exactly a file letter a-h
\* followed by a rank digit 1-8.
C13_FieldErrors ==
    (call.op = "from_fen" /\ (BadCastling(call.fen[3]) \/ ~GoodEnPassant(call.fen[4])))
        => (~call.ret.ok /\ ~call.ret.panic /\ call.ret.err # "")

\* from_fen returned Err for an en-passant field of two characters that is
\* no square, behind a good placement and a good castling field.
C13_Witness ==
    /\ call.op = "from_fen"
    /\ call.fen[1] = Join(KingRanks)
    /\ ~BadCastling(call.fen[3])
    /\ call.fen[4] = <<"i", "3">>
    /\ ~call.ret.ok /\ ~call.ret.panic /\ call.ret.err # ""

\* The squares a rank of the placement stands for: one per piece character
\* and the value of each digit.
RECURSIVE RankSquares(_)
RankSquares(rank) ==
    IF rank = <<>> THEN 0
    ELSE (IF is_digit(Head(rank)) THEN to_digit(Head(rank)) ELSE 1) + RankSquares(Tail(rank))

\* The placement is not eight ranks of eight squares each, or holds a
\* character that is neither a digit nor a piece letter.
BadPlacement(p) ==
    \/ Cardinality({i \in 1..Len(p) : p[i] = "/"}) # 7
    \/ \E i \in 1..Len(Split(p, "/")) : RankSquares(Split(p, "/")[i]) # 8
    \/ \E i \in 1..Len(p) :
           /\ p[i] # "/"
           /\ ~is_digit(p[i])
           /\ p[i] \notin {"P", "R", "N", "B", "Q", "K", "p", "r", "n", "b", "q", "k"}

KingAbsent(p) ==
    \/ \A i \in 1..Len(p) : p[i] # "K"
    \/ \A i \in 1..Len(p) : p[i] # "k"

\* C14 (errors of the placement field): from_fen returns Err whenever the
\* placement does not split on '/' into exactly 8 ranks, or a rank's pieces
\* plus digit skips do not sum to exactly 8 squares, or a placement character
\* is neither a digit nor one of PRNBQKprnbqk, or the white or the black king
\* is absent.
C14_PlacementErrors ==
    (call.op = "from_fen" /\ (BadPlacement(call.fen[1]) \/ KingAbsent(call.fen[1])))
        => (~call.ret.ok /\ ~call.ret.panic /\ call.ret.err # "")

\* from_fen returned Err for a placement with a rank of nine squares, given
\* with an en-passant field of one character.
C14_Witness ==
    /\ call.op = "from_fen"
    /\ call.fen[1] = Join([KingRanks EXCEPT ![4] = <<"5", "4">>])
    /\ call.fen[4] = <<"e">>
    /\ ~call.ret.ok /\ ~call.ret.panic /\ call.ret.err # ""

\* from_fen returned Err for a placement without a black king.
C14_WitnessKing ==
    /\ call.op = "from_fen"
    /\ ~BadPlacement(call.fen[1])
    /\ KingAbsent(call.fen[1])
    /\ ~call.ret.ok /\ ~call.ret.panic /\ call.ret.err # ""

\* The step (in files, in ranks) along an axis.
AxisStep(axis) ==
    IF axis = "rank" THEN <<1, 0>>
    ELSE IF axis = "file" THEN <<0, 1>>
    ELSE IF axis = "diagonal" THEN <<1, 1>>
    ELSE <<-1, 1>>

\* The squares met walking from sq by steps of (df, dr), up to and including
\* the first occupied one.
Walk(sq, occ, df, dr) ==
    {t \in Squares :
        \E k \in 1..7 :
            /\ FileOf(sq) + k * df \in 0..7
            /\ RankOf(sq) + k * dr \in 0..7
            /\ t = sq + k * (8 * dr + df)
            /\ \A j \in 1..(k - 1) : sq + j * (8 * dr + df) \notin occ}

\* C15 (slider attack correctness): for every square, every occupancy that
\* holds the square and each of its four axis masks, slider_attacks_hq returns
\* the squares met walking from the square in both directions along the axis,
\* up to and including the first occupied one, without the square itself.
C15_SliderAttacks ==
    call.op = "slider_attacks_hq" =>
        call.ret = Walk(call.sq, call.occ, AxisStep(call.axis)[1], AxisStep(call.axis)[2])
                       \cup Walk(call.sq, call.occ, -AxisStep(call.axis)[1],
                                 -AxisStep(call.axis)[2])

\* A call on a diagonal with a blocker on each side of the square and squares
\* beyond both blockers.
C15_Witness ==
    /\ call.op = "slider_attacks_hq"
    /\ call.axis = "diagonal"
    /\ call.sq = 27
    /\ call.occ = {9, 27, 45}
    /\ call.ret = {9, 18, 36, 45}




\* The move leaves the mover's king unattacked, as the pawn generator tests it.
PassesFilter(b, m) == ~is_king_attacked(make_move(b, m), FALSE)

\* C18 (promotion generation): every returned move of a pawn onto the
\* farthest rank (a push or a capture) is a promotion to knight, bishop, rook
\* or queen, never a plain move, and with it come the promotions of the same
\* origin and destination to the other kinds that pass the king-safety filter.
C18_PromotionsGenerated ==
    last.op = "get_legal_moves" =>
        \A m \in MovesSet :
            (m.start \in PawnsToMove(last.before)
                 /\ RankOf(m.end) = FarthestRank(last.before)) =>
                /\ m.context = "Promotion"
                /\ m.promoted \in PromotionKinds
                /\ \A p \in PromotionKinds :
                       PassesFilter(last.before, [m EXCEPT !.promoted = p])
                           => [m EXCEPT !.promoted = p] \in MovesSet

\* get_legal_moves returned a push and a capture of a pawn onto the farthest
\* rank.
C18_Witness ==
    /\ last.op = "get_legal_moves"
    /\ \E m \in MovesSet :
           /\ m.start \in PawnsToMove(last.before)
           /\ RankOf(m.end) = FarthestRank(last.before)
           /\ m.capture = NONE
    /\ \E m \in MovesSet :
           /\ m.start \in PawnsToMove(last.before)
           /\ RankOf(m.end) = FarthestRank(last.before)
           /\ m.capture # NONE

\* C19 (get_legal_moves has no side effect): when get_legal_moves returns, the
\* board equals the board before the call in every field.
C19_GeneratorRestoresBoard ==
    last.op = "get_legal_moves" => board = last.before

\* get_legal_moves returned moves of a king, of a pawn and of a rook, each
\* tried by make_move, and left the board as it was.
C19_Witness ==
    /\ last.op = "get_legal_moves"
    /\ board = last.before
    /\ \E m \in MovesSet : m.start = board.white_king
    /\ \E m \in MovesSet : m.start \in board.white_pawns
    /\ \E m \in MovesSet : m.start \in board.white_rooks

\* C20 (en-passant target bookkeeping): after make_move(m) the target is the
\* square the pawn passed over (m.end - 8 for white, m.end + 8 for black) if
\* and only if m is a DoubleStep move, and None after every other move; so a
\* target never survives the next make_move.
C20_TargetBookkeeping ==
    last.op = "make_move" =>
        /\ last.mv.context = "DoubleStep" =>
               /\ board.en_passant_target =
                      (IF last.before.white_to_play THEN last.mv.end - 8 ELSE last.mv.end + 8)
               /\ 2 * board.en_passant_target = last.mv.start + last.mv.end
        /\ last.mv.context # "DoubleStep" => board.en_passant_target = NONE
        /\ last.before.en_passant_target # NONE =>
               board.en_passant_target # last.before.en_passant_target

\* A double step set the target to the square passed over, and the next
\* make_move, no double step, cleared it.
C20_Witness ==
    /\ last.op = "make_move"
    /\ last.mv.context # "DoubleStep"
    /\ Len(stack) >= 2
    /\ stack[Len(stack) - 1].mv.context = "DoubleStep"
    /\ last.before.en_passant_target # NONE
    /\ 2 * last.before.en_passant_target
           = stack[Len(stack) - 1].mv.start + stack[Len(stack) - 1].mv.end
    /\ board.en_passant_target = NONE

\* The squares at file distance df and rank distance dr from sq.
AtOffset(sq, df, dr) ==
    {t \in Squares : Abs(FileOf(t) - FileOf(sq)) = df /\ Abs(RankOf(t) - RankOf(sq)) = dr}

\* C21 (knight table): knight_mask(sq) is exactly the set of on-board squares
\* at file/rank offset (+-1, +-2) or (+-2, +-1) from sq, jumps onto rank 1 and
\* rank 2 included.
C21_KnightTable ==
    call.op = "knight_mask" =>
        call.ret = AtOffset(call.sq, 1, 2) \cup AtOffset(call.sq, 2, 1)

\* The table read for a knight on c2, whose jumps a1 and e1 land on rank 1.
C21_Witness ==
    /\ call.op = "knight_mask"
    /\ call.sq = 10
    /\ AtOffset(10, 2, 1) = {0, 4, 16, 20}
    /\ call.ret = {16, 20, 25, 27}

\* C22 (king table): king_mask(sq) is exactly the set of on-board squares
\* adjacent to sq, the a-file neighbours of a king on the b-file and the
\* rank-1 neighbours of a king on rank 2 included.
C22_KingTable ==
    call.op = "king_mask" =>
        call.ret = (AtOffset(call.sq, 1, 0) \cup AtOffset(call.sq, 0, 1))
                       \cup AtOffset(call.sq, 1, 1)

\* The table read for a king on b2: no a-file square and no rank-1 square.
C22_Witness ==
    /\ call.op = "king_mask"
    /\ call.sq = 9
    /\ call.ret = {10, 17, 18}

\* The castling right tied to a rook's home corner.
RightAtCorner(b, sq) ==
    IF sq = 0 THEN b.white_queen_side_castling_right
    ELSE IF sq = 7 THEN b.white_king_side_castling_right
    ELSE IF sq = 56 THEN b.black_queen_side_castling_right
    ELSE b.black_king_side_castling_right

\* C23 (rights lost on a rook home square): after make_move of a move whose
\* destination is a1, h1, a8 or h8, the castling right tied to that corner is
\* false, whichever side moved and whichever piece moved there.
C23_CornerClearsRight ==
    (call.op = "make_move" /\ ~call.panic /\ call.mv.end \in {0, 7, 56, 63}) =>
        ~RightAtCorner(board, call.mv.end)

\* A black pawn took the rook on h1 while white still had the king-side
\* right, and the right is gone.
C23_Witness ==
    /\ call.op = "make_move"
    /\ ~call.panic
    /\ ~call.board.white_to_play
    /\ call.mv.end = 7
    /\ call.mv.capture = ROOK
    /\ call.board.white_king_side_castling_right
    /\ ~board.white_king_side_castling_right
    /\ 7 \in board.black_pawns

\* A white pawn took the rook on a8 while black still had the queen-side
\* right, and the right is gone.
C23_WitnessBlackCorner ==
    /\ call.op = "make_move"
    /\ ~call.panic
    /\ call.board.white_to_play
    /\ call.mv.end = 56
    /\ call.board.black_queen_side_castling_right
    /\ ~board.black_queen_side_castling_right
    /\ 56 \in board.white_pawns

\* The king of the colour stands on its home square.
KingAtHome(b, white) ==
    IF white THEN b.white_king = 4 /\ 4 \in b.white_pieces
    ELSE b.black_king = 60 /\ 60 \in b.black_pieces

\* A castling flag of the board is true only with the king at home and a
\* rook of the colour on the flag's corner.
RightsBacked(b) ==
    /\ b.white_queen_side_castling_right => (KingAtHome(b, TRUE) /\ 0 \in b.white_rooks)
    /\ b.white_king_side_castling_right => (KingAtHome(b, TRUE) /\ 7 \in b.white_rooks)
    /\ b.black_queen_side_castling_right => (KingAtHome(b, FALSE) /\ 56 \in b.black_rooks)
    /\ b.black_king_side_castling_right => (KingAtHome(b, FALSE) /\ 63 \in b.black_rooks)

CrossedBy(from, m) == IF m.context = "KingSideCastle" THEN from + 1 ELSE from - 1

\* The board `a` is the board `b` after the castle m of the side to move in b:
\* king two squares toward the rook, rook from its corner to the square the
\* king crossed in the rook mask and in the side's aggregate mask, both
\* rights of the side cleared, the other side's masks untouched.
Castled(b, m, a) ==
    /\ m.end = (IF m.context = "KingSideCastle" THEN m.start + 2 ELSE m.start - 2)
    /\ IF b.white_to_play
       THEN /\ a.white_king = m.end
            /\ a.white_rooks = (b.white_rooks \ {CornerOf(b, m)}) \cup {CrossedBy(m.start, m)}
            /\ a.white_pieces = (b.white_pieces \ {m.start, CornerOf(b, m)})
                                    \cup {m.end, CrossedBy(m.start, m)}
            /\ ~a.white_king_side_castling_right /\ ~a.white_queen_side_castling_right
            /\ a.black_pieces = b.black_pieces
       ELSE /\ a.black_king = m.end
            /\ a.black_rooks = (b.black_rooks \ {CornerOf(b, m)}) \cup {CrossedBy(m.start, m)}
            /\ a.black_pieces = (b.black_pieces \ {m.start, CornerOf(b, m)})
                                    \cup {m.end, CrossedBy(m.start, m)}
            /\ ~a.black_king_side_castling_right /\ ~a.black_queen_side_castling_right
            /\ a.white_pieces = b.white_pieces
    /\ a.pieces = a.white_pieces \cup a.black_pieces

\* C25 (castle application): make_move of a QueenSideCastle or KingSideCastle
\* move moves the king two squares toward the rook and the side's rook from
\* its corner to the square the king crossed (a1->d1, h1->f1, a8->d8, h8->f8),
\* in the rook mask and the side's aggregate mask, and clears both castling
\* rights of the castling side.
C25_CastleApplied ==
    (last.op = "make_move" /\ last.mv.context \in {"QueenSideCastle", "KingSideCastle"}) =>
        Castled(last.before, last.mv, board)

\* Black castled queen-side: king on c8, rook from a8 on d8.
C25_Witness ==
    /\ last.op = "make_move"
    /\ last.mv.context = "QueenSideCastle"
    /\ ~last.before.white_to_play
    /\ 56 \in last.before.black_rooks
    /\ board.black_king = 58
    /\ 59 \in board.black_rooks /\ 59 \in board.black_pieces
    /\ 56 \notin board.black_rooks /\ 56 \notin board.black_pieces

\* White castled king-side: king on g1, rook from h1 on f1.
C25_WitnessWhite ==
    /\ last.op = "make_move"
    /\ last.mv.context = "KingSideCastle"
    /\ last.before.white_to_play
    /\ 7 \in last.before.white_rooks
    /\ board.white_king = 6
    /\ 5 \in board.white_rooks /\ 5 \in board.white_pieces
    /\ 7 \notin board.white_rooks /\ 7 \notin board.white_pieces

\* The mask of the pieces of kind k of one colour.
MaskOf(b, white, k) ==
    IF k = PAWN THEN (IF white THEN b.white_pawns ELSE b.black_pawns)
    ELSE IF k = KNIGHT THEN (IF white THEN b.white_knights ELSE b.black_knights)
    ELSE IF k = BISHOP THEN (IF white THEN b.white_bishops ELSE b.black_bishops)
    ELSE IF k = ROOK THEN (IF white THEN b.white_rooks ELSE b.black_rooks)
    ELSE IF k = QUEEN THEN (IF white THEN b.white_queens ELSE b.black_queens)
    ELSE {}

\* C26 (promotion application): make_move of a pawn move with context
\* Promotion(k), k a knight, bishop, rook or queen, leaves no pawn of the mover
\* on the origin or the destination and sets the destination in the mover's
\* mask for k; unmake_move of the same move clears the destination from the
\* mask for k and puts a pawn back on the origin, also when the promotion
\* captured a piece.
C26_PromotionApplied ==
    (call.op \in {"make_move", "unmake_move"} /\ call.mv.context = "Promotion") =>
        IF call.op = "make_move"
        THEN /\ call.mv.start \notin MaskOf(board, call.board.white_to_play, PAWN)
             /\ call.mv.end \notin MaskOf(board, call.board.white_to_play, PAWN)
             /\ call.mv.end \in MaskOf(board, call.board.white_to_play, call.mv.promoted)
        ELSE /\ call.mv.end \notin MaskOf(board, board.white_to_play, call.mv.promoted)
             /\ call.mv.start \in MaskOf(board, board.white_to_play, PAWN)
             /\ call.mv.end \notin MaskOf(board, board.white_to_play, PAWN)

\* A white pawn took the rook on a8 and became a queen.
C26_Witness ==
    /\ call.op = "make_move"
    /\ call.mv.context = "Promotion"
    /\ call.mv.promoted = QUEEN
    /\ call.mv.capture = ROOK
    /\ call.mv.start = 49 /\ call.mv.end = 56
    /\ 56 \in board.white_queens
    /\ 56 \notin board.black_rooks

\* A black pawn's capturing promotion to a knight was unmade: the pawn is
\* back on its origin and the captured rook on its corner.
C26_WitnessUnmade ==
    /\ call.op = "unmake_move"
    /\ call.mv.context = "Promotion"
    /\ call.mv.promoted = KNIGHT
    /\ call.mv.capture = ROOK
    /\ call.mv.end = 7
    /\ call.mv.start \in board.black_pawns
    /\ 7 \in board.white_rooks
    /\ board.black_knights = call.orig.black_knights

\* The pawns of the side to move in b that stand on the rank they capture en
\* passant from (rank 5 for white, rank 4 for black), on a file next to the
\* file of the target t.
EnPassantOrigins(b, t) ==
    {s \in PawnsToMove(b) :
        /\ RankOf(s) = (IF b.white_to_play THEN 4 ELSE 3)
        /\ RankOf(t) = (IF b.white_to_play THEN 5 ELSE 2)
        /\ Abs(FileOf(s) - FileOf(t)) = 1}

\* The en-passant capture from s onto the target of b, as bitboard_to_moves
\* builds it.
EnPassantMove(b, s) == Move(s, b.en_passant_target, "EnPassant", EMPTY, NONE, b)

\* C27 (en-passant generation complete and colour-symmetric): with the target
\* t set for the side to move, the pawn generator considers an en-passant
\* capture onto t from every pawn of that side on the capturing rank and on a
\* file next to t's, a-file and h-file pawns included, for black as for
\* white (the capture is generated unless the legality probe drops it), and no
\* generated en-passant capture wraps around a board edge.
C27_EnPassantComplete ==
    last.op = "get_legal_moves" =>
        /\ last.before.en_passant_target # NONE =>
               \A s \in EnPassantOrigins(last.before, last.before.en_passant_target) :
                   \/ \E i \in 1..Len(moves) : moves[i] = EnPassantMove(last.before, s)
                   \/ is_king_attacked(make_move(last.before, EnPassantMove(last.before, s)),
                                       FALSE)
        /\ \A i \in 1..Len(moves) :
               moves[i].context = "EnPassant" =>
                   /\ moves[i].end = last.before.en_passant_target
                   /\ moves[i].start \in
                          EnPassantOrigins(last.before, last.before.en_passant_target)

\* After b2-b4 the black pawn on a4 stands next to the pawn that passed b3,
\* and the moves returned to black hold no en-passant capture.
C27_Witness ==
    /\ last.op = "get_legal_moves"
    /\ ~last.before.white_to_play
    /\ last.before.en_passant_target = 17
    /\ 24 \in last.before.black_pawns
    /\ 25 \in last.before.white_pawns
    /\ \A i \in 1..Len(moves) : moves[i].context # "EnPassant"
    /\ ~is_king_attacked(make_move(last.before, EnPassantMove(last.before, 24)), FALSE)

\* The moves bitboard_to_moves builds for one call <<to_bb, shift, ep>> of the
\* pawn generator, before the probe.
CallCandidates(b, c) == {pawn_move(b, to - c[2], to, c[2], c[3]) : to \in c[1]}

\* The pawn moves the generator builds on b, before the probe.
PawnCandidates(b) ==
    UNION {CallCandidates(b, pawn_calls(b, Not(b.pieces))[i]) :
               i \in 1..Len(pawn_calls(b, Not(b.pieces)))}

\* C28 (the pawn probe tests the mover's king): a pawn move built by the pawn
\* generator is kept exactly when, after the tentative make_move, the king of
\* the side that made the move is not attacked, the test the other
\* generators apply.
C28_PawnProbeMoversKing ==
    last.op = "get_legal_moves" =>
        \A m \in PawnCandidates(last.before) :
            (\E i \in 1..Len(moves) : moves[i] = m)
                <=> ~is_king_attacked(make_move(last.before, m), TRUE)

\* White is in check from the rook on e8 and the push h2-h3, which leaves the
\* king attacked, is among the moves returned.
C28_Witness ==
    /\ last.op = "get_legal_moves"
    /\ last.before.white_to_play
    /\ \E i \in 1..Len(moves) :
           /\ moves[i].start = 15 /\ moves[i].end = 23
           /\ 15 \in last.before.white_pawns
           /\ is_king_attacked(make_move(last.before, moves[i]), TRUE)
           /\ ~is_king_attacked(make_move(last.before, moves[i]), FALSE)

\* The moves of ms made by a pawn of the side to move in b with a shift of 7
\* or 9 squares toward the other side, en-passant captures apart.
DiagonalPawnMoves(b, ms) ==
    {ms[i] : i \in {j \in 1..Len(ms) :
                     /\ ms[j].start \in PawnsToMove(b)
                     /\ ms[j].context # "EnPassant"
                     /\ (IF b.white_to_play THEN ms[j].end - ms[j].start
                         ELSE ms[j].start - ms[j].end) \in {7, 9}}}

\* C29 (pawn captures never wrap): every diagonal pawn capture generated, for
\* white (shift 7 or 9) or black (shift -9 or -7), ends one file away from its
\* origin, one rank ahead of it for the moving side, on a square holding an
\* enemy piece.
C29_CapturesNeverWrap ==
    last.op = "get_legal_moves" =>
        \A m \in DiagonalPawnMoves(last.before, moves) :
            /\ Abs(FileOf(m.end) - FileOf(m.start)) = 1
            /\ RankOf(m.end) - RankOf(m.start) = (IF last.before.white_to_play THEN 1 ELSE -1)
            /\ m.end \in Enemy(last.before)
            /\ m.capture = get_piece_type_on_square(last.before, m.end)

\* Black's h-pawn has an enemy pawn on g3, which it takes, and one on a4,
\* where a shift of 7 across the edge lands; the only capture returned for it
\* is h4xg3.
C29_Witness ==
    /\ last.op = "get_legal_moves"
    /\ ~last.before.white_to_play
    /\ 31 \in last.before.black_pawns
    /\ {22, 24} \subseteq last.before.white_pawns
    /\ \E m \in DiagonalPawnMoves(last.before, moves) : m.start = 31 /\ m.end = 22
    /\ \A m \in DiagonalPawnMoves(last.before, moves) : m.start = 31 => m.end = 22

\* White's a-pawn has an enemy pawn on b5, which it takes, and one on h4,
\* where a shift of 7 across the edge lands; the only capture returned for it
\* is a4xb5.
C29_WitnessWhite ==
    /\ last.op = "get_legal_moves"
    /\ last.before.white_to_play
    /\ 24 \in last.before.white_pawns
    /\ {31, 33} \subseteq last.before.black_pawns
    /\ \E m \in DiagonalPawnMoves(last.before, moves) : m.start = 24 /\ m.end = 33
    /\ \A m \in DiagonalPawnMoves(last.before, moves) : m.start = 24 => m.end = 33

\* The largest number of a non-empty finite set of integers.
MaxOf(S) == CHOOSE x \in S : \A y \in S : y <= x

\* The negated scores negamax gives, at depth d, to the positions after the
\* moves ms made on b.
ChildScores(b, ms, d) == {-negamax(make_move(b, ms[i]), d).score : i \in 1..Len(ms)}

\* The value the claim gives negamax(b, d).
NegamaxValue(b, ms, d) ==
    IF d = 0 THEN evaluate(b)
    ELSE IF ms = <<>> THEN -INF
    ELSE MaxOf(ChildScores(b, ms, d - 1))

C30_WitnessNoMove ==
    /\ last.op = "negamax"
    /\ search.done
    /\ search.depth >= 1
    /\ get_legal_moves(last.before).moves = <<>>
    /\ search.score = -1000000
    /\ last.mv = NoBest

C31_WitnessDraw ==
    /\ last.op = "launch_alpha_beta_quiesce"
    /\ search.done
    /\ search.depth >= 1
    /\ get_legal_moves(last.before).moves = <<>>
    /\ ~is_king_attacked(last.before, FALSE)
    /\ search.score = 0

C32_QuiesceSteps ==
    /\ Len(frames) < MaxNesting
    /\ search.done => search.score = quiesce(last.before, call.alpha, call.beta).score

C32_WitnessNested ==
    /\ Len(frames) = 3
    /\ frames[3].pc = "return"

\* ------------------------------------------------------------------------
\* C33: a search returns a move whenever one exists: for a depth of 1 or more
\* and a position with a legal move, negamax, launch_alpha_beta and
\* launch_alpha_beta_quiesce return Some(m) with m among the legal moves, also
\* when every move leads to a child scored as lost; None is returned only
\* when the position has no legal move.
\* ------------------------------------------------------------------------
C33_MoveReturned ==
    (/\ last.op \in {"negamax", "launch_alpha_beta", "launch_alpha_beta_quiesce"}
     /\ search.done
     /\ search.depth >= 1) =>
        IF get_legal_moves(last.before).moves = <<>>
        THEN last.mv = NoBest
        ELSE \E i \in 1..Len(get_legal_moves(last.before).moves) :
                 get_legal_moves(last.before).moves[i] = last.mv

\* Black has one legal move, answered by mate: the search of depth 3 scores
\* it -1000000 and returns no move.
C33_Witness ==
    /\ last.op = "launch_alpha_beta"
    /\ search.done
    /\ search.depth = 3
    /\ get_legal_moves(last.before).moves # <<>>
    /\ search.score = -INF
    /\ last.mv = NoBest

\* A move of the list is returned by a search of depth 1 or more.
C33_WitnessMove ==
    /\ last.op = "launch_alpha_beta"
    /\ search.done
    /\ search.depth >= 1
    /\ \E i \in 1..Len(get_legal_moves(last.before).moves) :
           get_legal_moves(last.before).moves[i] = last.mv

\* ------------------------------------------------------------------------
\* C34: game end in play(): the loop is left before its bound only in a
\* position where the side to move has no legal move; the result is Black
\* (White) only if white (black) is to move, has no legal move and its king is
\* attacked, and Stalemate when the king is not attacked; no game is ended or
\* scored while the side to move has a legal move, whatever the strategies.
\* ------------------------------------------------------------------------
C34_GameEnd ==
    (/\ call.op = "play"
     /\ call.pc = "returned"
     /\ last.op = "play") =>
        /\ get_legal_moves(last.before).moves = <<>>
        /\ call.game_result = "Black" =>
               last.before.white_to_play /\ is_king_attacked(last.before, FALSE)
        /\ call.game_result = "White" =>
               ~last.before.white_to_play /\ is_king_attacked(last.before, FALSE)
        /\ ~is_king_attacked(last.before, FALSE) => call.game_result = "Stalemate"

\* The game was ended and given to White in a position where black, playing
\* a search, has a legal move.
C34_Witness ==
    /\ call.op = "play"
    /\ call.pc = "returned"
    /\ last.op = "play"
    /\ ~last.before.white_to_play
    /\ call.black_strategy # "random"
    /\ get_legal_moves(last.before).moves # <<>>
    /\ call.game_result = "White"

\* The game ended as the sentence says: the side to move has no move and its
\* king is attacked.
C34_WitnessMate ==
    /\ call.op = "play"
    /\ call.pc = "returned"
    /\ last.op = "play"
    /\ get_legal_moves(last.before).moves = <<>>
    /\ is_king_attacked(last.before, FALSE)
    /\ call.game_result = "White"

TypeMasks(b) ==
    <<b.white_pawns, b.white_rooks, b.white_knights, b.white_bishops, b.white_queens,
      b.black_pawns, b.black_rooks, b.black_knights, b.black_bishops, b.black_queens>>

\* No square in two per-type masks, no king square in a per-type mask, no
\* square in both colour masks.
MasksDisjoint(b) ==
    /\ \A i, j \in 1..10 : i < j => TypeMasks(b)[i] \cap TypeMasks(b)[j] = {}
    /\ \A i \in 1..10 : b.white_king \notin TypeMasks(b)[i] /\ b.black_king \notin TypeMasks(b)[i]
    /\ b.white_pieces \cap b.black_pieces = {}

\* The kind of the piece the opponent of the side to move has on sq, EMPTY
\* when it has none.
EnemyKindOn(b, sq) ==
    IF sq = (IF b.white_to_play THEN b.black_king ELSE b.white_king) THEN KING
    ELSE IF sq \in (IF b.white_to_play THEN b.black_pawns ELSE b.white_pawns) THEN PAWN
    ELSE IF sq \in (IF b.white_to_play THEN b.black_rooks ELSE b.white_rooks) THEN ROOK
    ELSE IF sq \in (IF b.white_to_play THEN b.black_knights ELSE b.white_knights) THEN KNIGHT
    ELSE IF sq \in (IF b.white_to_play THEN b.black_bishops ELSE b.white_bishops) THEN BISHOP
    ELSE IF sq \in (IF b.white_to_play THEN b.black_queens ELSE b.white_queens) THEN QUEEN
    ELSE EMPTY

\* ------------------------------------------------------------------------
\* C36: piece masks stay disjoint: in every position reached from a start
\* position by make_move and unmake_move of generated moves, no square is in
\* two of the ten per-type masks, no king square is in a per-type mask, and
\* white_pieces and black_pieces share no square; a generated move onto a
\* square of the opponent carries the kind of the piece that stands there.
\* ------------------------------------------------------------------------
C36_MasksDisjoint ==
    /\ MasksDisjoint(board)
    /\ last.op = "get_legal_moves" =>
           \A i \in 1..Len(moves) :
               moves[i].end \in Enemy(board) =>
                   moves[i].capture = EnemyKindOn(board, moves[i].end)

\* After the capture of the king on d2 the capturing knight stands on the
\* square black_king still names.
C36_Witness ==
    /\ last.op = "make_move"
    /\ last.mv.capture = KING
    /\ board.black_king = last.mv.end
    /\ board.black_king \in board.white_knights

\* A capture was made and the masks are disjoint.
C36_WitnessCapture ==
    /\ last.op = "make_move"
    /\ last.mv.capture \in {PAWN, ROOK, KNIGHT, BISHOP, QUEEN}
    /\ MasksDisjoint(board)

PieceChars(placement) ==
    {i \in 1..Len(placement) : ~is_digit(placement[i]) /\ placement[i] # "/"}

\* How many times c occurs in the placement.
CountChar(placement, c) == Cardinality({i \in 1..Len(placement) : placement[i] = c})

\* The pieces of a board: one per square of a per-type mask, and the two kings.
RECURSIVE SumCardinality(_)
SumCardinality(masks) ==
    IF masks = <<>> THEN 0 ELSE Cardinality(Head(masks)) + SumCardinality(Tail(masks))

PieceCount(b) == SumCardinality(TypeMasks(b)) + 2

C38_EveryPiecePlaced ==
    (call.op = "from_fen" /\ call.ret.ok) =>
        PieceCount(call.ret.board) = Cardinality(PieceChars(call.fen[1]))

\* A placement with two white kings was accepted, and the board holds the
\* later one only.
C38_Witness ==
    /\ call.op = "from_fen"
    /\ call.ret.ok
    /\ CountChar(call.fen[1], "K") = 2
    /\ PieceCount(call.ret.board) = Cardinality(PieceChars(call.fen[1])) - 1

\* A placement with one king of each colour and other pieces was accepted
\* with every piece on the board.
C38_WitnessPlaced ==
    /\ call.op = "from_fen"
    /\ call.ret.ok
    /\ CountChar(call.fen[1], "K") = 1
    /\ CountChar(call.fen[1], "k") = 1
    /\ Cardinality(PieceChars(call.fen[1])) > 2
    /\ PieceCount(call.ret.board) = Cardinality(PieceChars(call.fen[1]))

\* ------------------------------------------------------------------------
\* C39: no integer overflow in the slider routine of moves.rs: for every
\* square, neither the doubled piece bit nor the doubled bit of the reversed
\* board exceeds 64 bits, the routine returns in either build, and its mask
\* is the one the shift-based routine of piece/slider.rs returns.
\* ------------------------------------------------------------------------
C39_NoOverflow ==
    call.op = "moves_slider_attacks_hq" =>
        /\ ~mul2_overflows(Bit(call.sq))
        /\ ~mul2_overflows(ReverseBits(Bit(call.sq)))
        /\ ~call.ret.panic
        /\ call.ret.mask = slider_attacks_hq(call.sq, call.occ, axis_mask(call.sq, call.axis))

\* The routine was called on square 63 in a build that traps overflow, and
\* the product 2 * bit trapped.
C39_Witness ==
    /\ call.op = "moves_slider_attacks_hq"
    /\ call.sq = 63
    /\ call.overflow_checks
    /\ call.ret.panic

\* On square 0 in a build that wraps, the product 2 * rev_bit wrapped to 0
\* and the mask is the one of the shift-based routine.
C39_WitnessWrapped ==
    /\ call.op = "moves_slider_attacks_hq"
    /\ call.sq = 0
    /\ ~call.overflow_checks
    /\ mul2_overflows(ReverseBits(Bit(call.sq)))
    /\ ~call.ret.panic
    /\ call.ret.mask = slider_attacks_hq(call.sq, call.occ, axis_mask(call.sq, call.axis))
    /\ call.ret.mask # {}

====
